---- MODULE Spec2Model ----
(***************************************************************************)
(* Model of the PredicGuard risk layer: the StopLossManager and the        *)
(* DrawdownProtector of src/src/risk/position-sizing.ts and the decision   *)
(* pipeline of BaseAgent (src/unnamed/part_005) with the collaborators it  *)
(* calls.                                                                  *)
(*                                                                         *)
(* Numbers.  bigint values are TLA+ integers.  A JavaScript fraction such  *)
(* as 0.05 is carried as the integer number of 1/10000 it denotes (500);   *)
(* every fraction used below is a multiple of 1/10000.  A quotient of two  *)
(* Numbers (Number(a) / Number(b)) is carried as the exact pair            *)
(* [n |-> a, d |-> b]; for the magnitudes used here (below 2^31) the       *)
(* IEEE-754 comparison of such a quotient with a fraction literal agrees   *)
(* with the exact comparison, because two distinct rationals with such     *)
(* small denominators are many ulps apart and division is correctly        *)
(* rounded.                                                                *)
(***************************************************************************)
EXTENDS Integers, Sequences, FiniteSets, TLC

VARIABLES
    manager,      \* a StopLossManager: params, highestPrice, lowestPrice, isActive
    slCalls,      \* the updatePrice calls made on manager so far, with their results
    protector,    \* a DrawdownProtector: config and state
    ddCalls,      \* the updateValue calls made on protector so far, with their results
    agent,        \* a BaseAgent with the objects it owns and its AuditLogger
    pmdLast,      \* the latest processMarketData call made on agent, with its outcome
    agentOps,     \* how many calls of each kind agent has seen
    sizing,       \* a call of calculateKellyCriterion: its parameters and its outcome
    ledger,       \* an AuditLogger: entries and merkleTree
    audit,        \* the latest call made on ledger, with its outcome
    trail,        \* an array of entries handed to AuditVerifier.verifyTrail, and the result
    whale,        \* a WhaleDetector: thresholds, orderHistory, volume24h
    whaleCall,    \* the latest analyzeOrder call made on whale, with its outcome
    wash,         \* a WashTradingDetector: minTradeCount, timeWindowMs, tradeHistory
    washCall,     \* the latest analyzeTrades call made on wash, with its outcome
    oracle,       \* an OracleMonitor: its configuration and its sourceStates
    oracleCall,   \* the latest checkHealth call made on oracle, with its outcome
    sandwich,     \* a SandwichProtector: maxSlippagePercent and pendingTxs
    sandwichCall, \* the latest preTradeCheck call made on sandwich, with its outcome
    balancerCall, \* a construction of a PortfolioBalancer: its arguments and its outcome
    fixedCall,    \* a call of calculateFixedFractional: its arguments and its outcome
    guard,        \* a ReputationGuard with its ReputationClient
    guardCall,    \* the latest canInteract call made on guard, with its outcome, and
                  \* the addresses the calls made so far have blocked
    flight,       \* a processMarketData call of agent under way, at one of its awaits
    construction, \* a construction of an agent: its arguments and its outcome
    retryRun,     \* a call of retry under way: attempts made, waits, outcome
    limiter,      \* a RateLimiter with the throttle calls made on it
    clock,        \* the value Date.now() returned at its latest read
    lastOp        \* name of the latest operation performed on manager, protector or oracle

slVars == <<manager, slCalls>>
ddVars == <<protector, ddCalls>>
agentVars == <<agent, pmdLast, agentOps>>
auditVars == <<ledger, audit>>
whaleVars == <<whale, whaleCall>>
washVars == <<wash, washCall>>
oracleVars == <<oracle, oracleCall>>
sandwichVars == <<sandwich, sandwichCall>>
guardVars == <<guard, guardCall>>
detVars == <<washVars, oracleVars, sandwichVars, balancerCall, fixedCall, guardVars>>
runVars == <<flight, construction, retryRun, limiter>>
libVars == <<sizing, ledger, audit, trail, whale, whaleCall, detVars, runVars>>
vars == <<manager, slCalls, protector, ddCalls, agent, pmdLast, agentOps, sizing, ledger,
          audit, trail, whale, whaleCall, wash, washCall, oracle, oracleCall, sandwich,
          sandwichCall, balancerCall, fixedCall, guard, guardCall, flight, construction,
          retryRun, limiter, clock, lastOp>>

-----------------------------------------------------------------------------
(* Bounds *)

MaxSLCalls == 3
MaxDDCalls == 2
MaxTicks == 1            \* processMarketData calls
MaxPositionUpdates == 2  \* updatePosition calls
MaxEntries == 3          \* entries in the AuditLogger
MaxTrail == 3            \* entries in an array handed to verifyTrail
MaxOrders == 2           \* orders of a market in the history of the WhaleDetector
MaxTrades == 3           \* trades handed to the WashTradingDetector
MaxAdvances == 1         \* times the clock of an OracleMonitor or ReputationGuard moves on
MaxPending == 3          \* transaction hashes pending in the SandwichProtector
MaxFlights == 1          \* processMarketData calls run await by await
MaxUpdates == 3          \* updatePosition calls made on their own
MaxRetries == 3          \* largest maxRetries a retry call is given
MaxCalls == 3            \* throttle calls made on a RateLimiter

-----------------------------------------------------------------------------
(* Helpers for JavaScript numbers *)

\* Math.floor(fraction * 100) for a fraction carried in 1/10000 units.
\* (Exact for the fractions of StopLossConfigs: 0.05*100, 0.15*100 and
\* 0.10*100 evaluate to 5, 15.000000000000002 and 10 in IEEE-754.)
FloorTimes100(fraction) == fraction \div 100

\* quotient >= fraction, for a quotient [n, d] with d > 0
QuotGeq(q, fraction) == q.n * 10000 >= fraction * q.d

-----------------------------------------------------------------------------
(* StopLossManager, src/src/risk/position-sizing.ts:118-192 *)

NoReason == "none"

\* The StopLossParams the tracker is built from.  A takeProfitPercent or
\* trailingStopPercent of 0 stands for an absent (or zero) option: both are
\* falsy at lines 150 and 158.
StopLossConfigs ==
    { [entryPrice |-> 1000, stopLossPercent |-> 500, takeProfitPercent |-> 1500,
       trailingStopPercent |-> 1000],
      [entryPrice |-> 1000, stopLossPercent |-> 500, takeProfitPercent |-> 500,
       trailingStopPercent |-> 0],
      [entryPrice |-> 1000, stopLossPercent |-> 500, takeProfitPercent |-> 0,
       trailingStopPercent |-> 1000],
      [entryPrice |-> 100000, stopLossPercent |-> 500, takeProfitPercent |-> 1500,
       trailingStopPercent |-> 1000] }

Prices == {940, 950, 960, 1000, 1001, 1050, 1079, 1150, 1151, 1200, 2000,
           99950, 100100, 100150, 115000}

StopLossManager_new(params) ==
    [params |-> params, highestPrice |-> params.entryPrice,
     lowestPrice |-> params.entryPrice, isActive |-> TRUE]

calculateStopLossPrice(m) ==
    LET drop == (m.params.entryPrice * FloorTimes100(m.params.stopLossPercent)) \div 10000
    IN  m.params.entryPrice - drop

calculateTakeProfitPrice(m) ==
    IF m.params.takeProfitPercent = 0 THEN 0
    ELSE LET gain == (m.params.entryPrice * FloorTimes100(m.params.takeProfitPercent)) \div 10000
         IN  m.params.entryPrice + gain

calculateTrailingStopPrice(m) ==
    IF m.params.trailingStopPercent = 0 THEN 0
    ELSE LET drop == (m.highestPrice * FloorTimes100(m.params.trailingStopPercent)) \div 10000
         IN  m.highestPrice - drop

\* Mutant of StopLossManager_updatePrice: the trailing stop is examined before
\* the take-profit level.
StopLossManager_updatePrice_TrailingFirst(m, currentPrice) ==
    IF ~m.isActive
    THEN [m |-> m, shouldExit |-> FALSE, reason |-> NoReason, active |-> FALSE]
    ELSE LET m1 == [m EXCEPT !.highestPrice = IF currentPrice > m.highestPrice
                                              THEN currentPrice ELSE m.highestPrice,
                             !.lowestPrice = IF currentPrice < m.lowestPrice
                                             THEN currentPrice ELSE m.lowestPrice]
         IN  IF currentPrice <= calculateStopLossPrice(m1)
             THEN [m |-> m1, shouldExit |-> TRUE, reason |-> "STOP_LOSS", active |-> TRUE]
             ELSE IF m1.params.trailingStopPercent # 0
                     /\ currentPrice <= calculateTrailingStopPrice(m1)
             THEN [m |-> m1, shouldExit |-> TRUE, reason |-> "TRAILING_STOP", active |-> TRUE]
             ELSE IF m1.params.takeProfitPercent # 0
                     /\ currentPrice >= calculateTakeProfitPrice(m1)
             THEN [m |-> m1, shouldExit |-> TRUE, reason |-> "TAKE_PROFIT", active |-> TRUE]
             ELSE [m |-> m1, shouldExit |-> FALSE, reason |-> NoReason, active |-> TRUE]

\* updatePrice: the manager after the call and the value returned.  "active"
\* records which branch of line 131 was taken.
StopLossManager_updatePrice(m, currentPrice) ==
    IF ~m.isActive
    THEN [m |-> m, shouldExit |-> FALSE, reason |-> NoReason, active |-> FALSE]
    ELSE LET m1 == [m EXCEPT !.highestPrice = IF currentPrice > m.highestPrice
                                              THEN currentPrice ELSE m.highestPrice,
                             !.lowestPrice = IF currentPrice < m.lowestPrice
                                             THEN currentPrice ELSE m.lowestPrice]
         IN  IF currentPrice <= calculateStopLossPrice(m1)
             THEN [m |-> m1, shouldExit |-> TRUE, reason |-> "STOP_LOSS", active |-> TRUE]
             ELSE IF m1.params.takeProfitPercent # 0
                     /\ currentPrice >= calculateTakeProfitPrice(m1)
             THEN [m |-> m1, shouldExit |-> TRUE, reason |-> "TAKE_PROFIT", active |-> TRUE]
             ELSE IF m1.params.trailingStopPercent # 0
                     /\ currentPrice <= calculateTrailingStopPrice(m1)
             THEN [m |-> m1, shouldExit |-> TRUE, reason |-> "TRAILING_STOP", active |-> TRUE]
             ELSE [m |-> m1, shouldExit |-> FALSE, reason |-> NoReason, active |-> TRUE]

StopLossManager_deactivate(m) == [m EXCEPT !.isActive = FALSE]

-----------------------------------------------------------------------------
(* DrawdownProtector, src/src/risk/position-sizing.ts:286-399 *)

DayMs == 86400000

\* The DrawdownConfig of the test suite (security.test.ts:168-173 and
\* 551-556); cooldownPeriodMs 3600000 is also what BaseAgent passes.
DrawdownConfigs ==
    { [maxDailyDrawdownPercent |-> 300, maxTotalDrawdownPercent |-> 1000,
       cooldownPeriodMs |-> 3600000, pauseOnTrigger |-> TRUE],
      [maxDailyDrawdownPercent |-> 500, maxTotalDrawdownPercent |-> 2000,
       cooldownPeriodMs |-> 3600000, pauseOnTrigger |-> TRUE] }

InitialValue == 10000
Equities == {0, 9400, 9500, 9600, 9699, 9700, 9750, 9760, 10000, 11000}

\* Time that passes before a call (ms), and between the two reads of
\* Date.now() inside one updateValue call (lines 310 and 388).
Elapsed == {0, 3600000, DayMs + 1}
IntraCall == {0, 1}
StartTime == 1000

DrawdownProtector_new(config, initialValue, now) ==
    [config |-> config,
     state |-> [peakValue |-> initialValue, currentValue |-> initialValue,
                dailyStartValue |-> initialValue, lastReset |-> now,
                inCooldown |-> FALSE, cooldownEnd |-> 0, triggeredCount |-> 0]]

calculateDrawdown(p) ==
    IF p.state.peakValue = 0 THEN [n |-> 0, d |-> 1]
    ELSE [n |-> p.state.peakValue - p.state.currentValue, d |-> p.state.peakValue]

calculateDailyDrawdown(p) ==
    IF p.state.dailyStartValue = 0 THEN [n |-> 0, d |-> 1]
    ELSE [n |-> p.state.dailyStartValue - p.state.currentValue,
          d |-> p.state.dailyStartValue]

\* Mutant of triggerCooldown: the trigger is not counted.
triggerCooldown_NoCount(p, now2) ==
    [p EXCEPT !.state.inCooldown = TRUE,
              !.state.cooldownEnd = now2 + p.config.cooldownPeriodMs]

\* triggerCooldown; now2 is the value of its own Date.now() read.
triggerCooldown(p, now2) ==
    [p EXCEPT !.state.inCooldown = TRUE,
              !.state.cooldownEnd = now2 + p.config.cooldownPeriodMs,
              !.state.triggeredCount = @ + 1]

\* Mutant of refreshPeak: the peak follows the current value down as well.
refreshPeak_Always(p, currentValue) ==
    [p EXCEPT !.state.peakValue = currentValue]

\* Lines 312-315 of updateValue: "Update peak".
refreshPeak(p, currentValue) ==
    [p EXCEPT !.state.peakValue = IF currentValue > p.state.peakValue
                                  THEN currentValue ELSE p.state.peakValue]

\* Lines 317-321 of updateValue: "Reset daily if needed".
resetDaily(p, currentValue, now) ==
    IF now - p.state.lastReset > DayMs
    THEN [p EXCEPT !.state.dailyStartValue = currentValue, !.state.lastReset = now]
    ELSE p

\* Mutant of cooldownExpired: the cooldown still holds at its end time.
cooldownExpired_Strict(p, now) == now > p.state.cooldownEnd

\* Line 325 of updateValue: the cooldown window has expired.
cooldownExpired(p, now) == now >= p.state.cooldownEnd

\* Lines 362-364 of updateValue: the status when no limit is met.  The
\* threshold maxDailyDrawdownPercent * 0.8 is carried in 1/100000 units (8
\* times the fraction) to stay in the integers; 0.03 * 0.8 is 0.024 and
\* 0.05 * 0.8 is 0.04000000000000001 as doubles, which no quotient of two
\* equities used here lies at or between.
warningStatus_AtThreshold(p, daily) ==
    IF daily.n * 100000 >= 8 * p.config.maxDailyDrawdownPercent * daily.d
    THEN "WARNING" ELSE "NORMAL"
warningStatus(p, daily) ==
    IF daily.n * 100000 > 8 * p.config.maxDailyDrawdownPercent * daily.d
    THEN "WARNING" ELSE "NORMAL"

\* updateValue: the protector after the call and the value returned.  now is
\* the Date.now() of line 310, now2 the one read by triggerCooldown.
DrawdownProtector_updateValue(p, currentValue, now, now2) ==
    LET p1 == refreshPeak([p EXCEPT !.state.currentValue = currentValue], currentValue)
        p2 == resetDaily(p1, currentValue, now)
    IN  IF p2.state.inCooldown /\ ~cooldownExpired(p2, now)
        THEN [p |-> p2, canTrade |-> FALSE, status |-> "COOLDOWN",
              drawdownPercent |-> calculateDrawdown(p2),
              dailyDrawdownPercent |-> calculateDailyDrawdown(p2)]
        ELSE LET p3 == [p2 EXCEPT !.state.inCooldown = FALSE]
                 dd == calculateDrawdown(p3)
                 daily == calculateDailyDrawdown(p3)
             IN  IF QuotGeq(dd, p3.config.maxTotalDrawdownPercent)
                 THEN [p |-> triggerCooldown(p3, now2), canTrade |-> FALSE,
                       status |-> "CRITICAL",
                       drawdownPercent |-> dd, dailyDrawdownPercent |-> daily]
                 ELSE IF QuotGeq(daily, p3.config.maxDailyDrawdownPercent)
                 THEN [p |-> triggerCooldown(p3, now2), canTrade |-> FALSE,
                       status |-> "CRITICAL",
                       drawdownPercent |-> dd, dailyDrawdownPercent |-> daily]
                 ELSE LET status == warningStatus(p3, daily)
                      IN  [p |-> p3,
                           canTrade |-> (~p3.config.pauseOnTrigger) \/ status # "CRITICAL",
                           status |-> status,
                           drawdownPercent |-> dd, dailyDrawdownPercent |-> daily]

DrawdownProtector_resetPeak(p) == [p EXCEPT !.state.peakValue = p.state.currentValue]

-----------------------------------------------------------------------------
(* JavaScript Map objects are functions whose domain is the set of keys. *)

EmptyMap == [k \in {} |-> 0]
MapSet(f, key, value) == [k \in DOMAIN f \cup {key} |-> IF k = key THEN value ELSE f[k]]
MapDelete(f, key) == [k \in DOMAIN f \ {key} |-> f[k]]

\* quotient > fraction, for a quotient [n, d] with d > 0
QuotGt(q, fraction) == q.n * 10000 > fraction * q.d
\* quotient < fraction
QuotLt(q, fraction) == q.n * 10000 < fraction * q.d

-----------------------------------------------------------------------------
(* AuditLogger, src/src/audit/audit-trail.ts:39-306, in local mode (no     *)
(* wallet: log signs nothing, and flush returns at once).                  *)
(*                                                                         *)
(* A payload (the data of an entry) is written as its JavaScript source.   *)
(* keccak256 is taken to be free of collisions: the hash of a string is    *)
(* carried as the string itself, and the hash of two concatenated hashes   *)
(* as the pair of them.                                                    *)

Payloads == {"{v: 1}", "{v: NaN}", "{v: null}", "{v: 1n}"}

\* JSON.stringify throws a TypeError on a bigint anywhere in the value.
StringifyThrows(data) == data = "{v: 1n}"

\* JSON.stringify writes NaN as null.
JSON_stringify(data) ==
    CASE data = "{v: 1}" -> "{'v':1}"
      [] data = "{v: NaN}" -> "{'v':null}"
      [] data = "{v: null}" -> "{'v':null}"

ZeroHash == <<"0x00">>

AuditLogger_new == [entries |-> <<>>, merkleTree |-> <<>>]

\* generateHash (lines 276-284), for an entry it does not throw on.
generateHash(entry) ==
    <<entry.type, entry.agent, JSON_stringify(entry.data), entry.timestamp>>

\* entry.timestamp || Date.now() (line 87)
stampTime(timestamp, now) == IF timestamp = 0 THEN now ELSE timestamp

\* log (lines 84-108): the logger after the call, whether the call threw, and
\* the entry returned.  generateHash throws before the entry is stored.
AuditLogger_log(logger, entry, now) ==
    LET stamped == [type |-> entry.type, agent |-> entry.agent, data |-> entry.data,
                    timestamp |-> stampTime(entry.timestamp, now)]
        fullEntry == [type |-> stamped.type, agent |-> stamped.agent,
                      data |-> stamped.data, timestamp |-> stamped.timestamp,
                      hash |-> generateHash(stamped), signature |-> ""]
    IN  IF StringifyThrows(entry.data)
        THEN [logger |-> logger, threw |-> TRUE, returned |-> <<>>]
        ELSE [logger |-> [logger EXCEPT !.entries = Append(@, fullEntry),
                                        !.merkleTree = Append(@, fullEntry.hash)],
              threw |-> FALSE, returned |-> <<fullEntry>>]

\* verifyEntry (lines 223-226): "true", "false", or "throws" when generateHash
\* throws on the entry handed in.
AuditLogger_verifyEntry(entry) ==
    IF StringifyThrows(entry.data) THEN "throws"
    ELSE IF generateHash(entry) = entry.hash THEN "true" ELSE "false"

\* Mutant of nextLevel: an unmatched last node goes up as it is.
nextLevel_Promote(hashes, i) ==
    [k \in 1..((Len(hashes) + 1) \div 2) |->
        IF 2 * k <= Len(hashes) THEN <<hashes[2 * k - 1], hashes[2 * k]>>
        ELSE hashes[2 * k - 1]]

\* One level of computeMerkleRoot: the for loop of lines 298-302 from index i
\* (counted from 1) on.  hashes[i + 1] is undefined past the end.
RECURSIVE nextLevel(_, _)
nextLevel(hashes, i) ==
    IF i > Len(hashes) THEN <<>>
    ELSE LET left == hashes[i]
             right == IF i + 1 <= Len(hashes) THEN hashes[i + 1] ELSE left
         IN  <<<<left, right>>>> \o nextLevel(hashes, i + 2)

RECURSIVE computeMerkleRoot(_)
computeMerkleRoot(hashes) ==
    IF Len(hashes) = 0 THEN ZeroHash
    ELSE IF Len(hashes) = 1 THEN hashes[1]
    ELSE computeMerkleRoot(nextLevel(hashes, 1))

\* getMerkleRoot (lines 231-233)
AuditLogger_getMerkleRoot(logger) == computeMerkleRoot(logger.merkleTree)

\* getEntries (lines 204-218): a filter field that is absent is "" or 0, which
\* the conditions of lines 207, 210 and 213 take for absent as well.
AuditLogger_getEntries(logger, filter) ==
    SelectSeq(logger.entries,
              LAMBDA e : /\ filter.type = "" \/ e.type = filter.type
                         /\ filter.agent = "" \/ e.agent = filter.agent
                         /\ filter.since = 0 \/ e.timestamp >= filter.since)

\* exportToJson (lines 238-244): the entries and the root that are written out
AuditLogger_exportToJson(logger) ==
    [entries |-> logger.entries, merkleRoot |-> AuditLogger_getMerkleRoot(logger)]

(* AuditVerifier.verifyTrail, src/src/audit/audit-trail.ts:316-370.  The   *)
(* entries of the array are objects: ref is the identity of the object,    *)
(* which Array.indexOf compares.  A signature is "" (absent), "signed", or *)
(* "malformed" (ethers.verifyMessage throws on it); verifyMessage does not *)
(* throw on a well-formed signature, and what it recovers is not used.     *)

\* entries.indexOf(entries[i]) (line 355), counted from 1: the first position
\* that holds the same object.
indexOf(entries, i) ==
    CHOOSE k \in 1..i :
        /\ entries[k].ref = entries[i].ref
        /\ \A j \in 1..(k - 1) : entries[j].ref # entries[i].ref

\* The issues the loop body (lines 324-363) raises for the entry at position i.
entryIssues(entries, i) ==
    LET entry == entries[i]
        index == indexOf(entries, i)
    IN  IF generateHash(entry) # entry.hash
        THEN <<[hash |-> entry.hash, issue |-> "Hash mismatch"]>>
        ELSE (IF entry.signature = "malformed"
              THEN <<[hash |-> entry.hash, issue |-> "Invalid signature"]>>
              ELSE <<>>)
             \o
             (IF index > 1 /\ entry.timestamp < entries[index - 1].timestamp
              THEN <<[hash |-> entry.hash, issue |-> "Timestamp out of order"]>>
              ELSE <<>>)

RECURSIVE trailIssues(_, _)
trailIssues(entries, i) ==
    IF i > Len(entries) THEN <<>>
    ELSE entryIssues(entries, i) \o trailIssues(entries, i + 1)

\* verifyTrail: it throws when JSON.stringify throws on an entry (line 326)
\* and returns valid, invalidCount and issues otherwise; every issue raises
\* invalidCount by one.
AuditVerifier_verifyTrail(entries) ==
    IF \E i \in 1..Len(entries) :
          /\ StringifyThrows(entries[i].data)
          /\ \A j \in 1..(i - 1) : ~StringifyThrows(entries[j].data)
    THEN [threw |-> TRUE, valid |-> FALSE, invalidCount |-> 0, issues |-> <<>>]
    ELSE LET issues == trailIssues(entries, 1)
         IN  [threw |-> FALSE, valid |-> Len(issues) = 0,
              invalidCount |-> Len(issues), issues |-> issues]

\* Entries to build arrays from: recorded entries (two of them equal in
\* content), a copy with a changed payload, copies with signatures, and one
\* whose payload holds a bigint.
TrailEntry(ref, data, timestamp, signature) ==
    [ref |-> ref, type |-> "TRADE", agent |-> "bot", data |-> data,
     timestamp |-> timestamp,
     \* the hash it was recorded with, when its payload was {v: 1}
     hash |-> generateHash([type |-> "TRADE", agent |-> "bot", data |-> "{v: 1}",
                            timestamp |-> timestamp]),
     signature |-> signature]

TrailEntries ==
    { TrailEntry(1, "{v: 1}", 1000, ""),
      TrailEntry(2, "{v: 1}", 2000, ""),
      TrailEntry(3, "{v: 1}", 1000, ""),
      TrailEntry(4, "{v: NaN}", 2000, ""),
      TrailEntry(5, "{v: 1}", 1000, "malformed"),
      TrailEntry(6, "{v: 1}", 2000, "signed"),
      TrailEntry(7, "{v: 1n}", 2000, "") }

LogTimestamps == {0, 500, 2000}

\* Filters handed to getEntries: none, a type, a type no entry has, a time
EntryFilters ==
    { [type |-> "", agent |-> "", since |-> 0],
      [type |-> "TRADE", agent |-> "bot", since |-> 0],
      [type |-> "ALERT", agent |-> "", since |-> 0],
      [type |-> "", agent |-> "", since |-> 1000] }

-----------------------------------------------------------------------------
(* WhaleDetector, src/src/security/anti-manipulation.ts:78-197 *)

NoAlert == [type |-> "none", severity |-> "none"]
HistoryWindowMs == 86400000
PriceImpactThreshold == 200

WhaleDetector_new(volumeThreshold) ==
    [volumeThreshold |-> volumeThreshold, priceImpactThreshold |-> PriceImpactThreshold,
     historyWindowMs |-> HistoryWindowMs, orderHistory |-> EmptyMap, volume24h |-> EmptyMap]

calculatePriceImpact(amount, liquidity) ==
    IF liquidity = 0 THEN [n |-> 1, d |-> 1]
    ELSE [n |-> amount, d |-> liquidity + amount]

storeOrder(w, order, now) ==
    LET marketOrders == IF order.marketId \in DOMAIN w.orderHistory
                        THEN w.orderHistory[order.marketId] ELSE <<>>
        cutoff == now - w.historyWindowMs
        IsRecent(o) == o.timestamp > cutoff
    IN  [w EXCEPT !.orderHistory =
            MapSet(@, order.marketId, SelectSeq(Append(marketOrders, order), IsRecent))]

\* analyzeOrder: the detector after the call and the alert returned (NoAlert
\* for null).  Of an alert only the type and the severity are carried.
WhaleDetector_analyzeOrder(w, order, currentLiquidity, now) ==
    LET impact == calculatePriceImpact(order.amount, currentLiquidity)
        sizeAlert == IF order.amount >= w.volumeThreshold
                     THEN <<[type |-> "WHALE_ORDER", severity |-> "HIGH"]>>
                     ELSE <<>>
        impactAlert == IF QuotGeq(impact, w.priceImpactThreshold)
                       THEN <<[type |-> "PRICE_IMPACT",
                               severity |-> IF QuotGt(impact, 500) THEN "CRITICAL"
                                            ELSE "MEDIUM"]>>
                       ELSE <<>>
        marketVolume == IF order.marketId \in DOMAIN w.volume24h
                        THEN w.volume24h[order.marketId] ELSE 0
        relativeSize == [n |-> order.amount, d |-> marketVolume]
        volumeAlert == IF marketVolume > 0 /\ QuotGt(relativeSize, 1000)
                       THEN <<[type |-> "WHALE_TRADE",
                               severity |-> IF QuotGt(relativeSize, 2500) THEN "CRITICAL"
                                            ELSE "HIGH"]>>
                       ELSE <<>>
        alerts == sizeAlert \o impactAlert \o volumeAlert
    IN  [w |-> storeOrder(w, order, now),
         alert |-> IF Len(alerts) > 0 THEN alerts[1] ELSE NoAlert,
         alerts |-> alerts]

\* updateVolume (lines 193-195)
WhaleDetector_updateVolume(w, marketId, volume) ==
    [w EXCEPT !.volume24h = MapSet(@, marketId, volume)]

\* Inputs of the detector on its own: orders around the threshold of 1000,
\* pools without, with little and with ample liquidity, 24h volumes.
WhaleThreshold == 1000
OrderAmounts == {10, 300, 1000, 2000, 3000}
Liquidities == {0, 1000, 10000, 1000000}
Volumes == {0, 2000, 100000}


-----------------------------------------------------------------------------
(* OracleMonitor, src/src/security/anti-manipulation.ts:348-449 *)

Sources == {"chainlink", "uniswap", "binance"}
MaxStalenessMs == 300000
MaxDeviationPercent == 200

OracleMonitor_new(sources) ==
    [sources |-> sources, maxStalenessMs |-> MaxStalenessMs,
     maxDeviationPercent |-> MaxDeviationPercent, sourceStates |-> EmptyMap]

Abs(x) == IF x < 0 THEN 0 - x ELSE x

RECURSIVE Gcd(_, _)
Gcd(a, b) == IF b = 0 THEN a ELSE Gcd(b, a % b)

\* A quotient in lowest terms, so that equal Numbers are equal values.
Reduced(q) == LET g == Gcd(Abs(q.n), q.d) IN [n |-> q.n \div g, d |-> q.d \div g]

\* The sum of |price - other| / other over the given sources, as one quotient.
RECURSIVE SumDeviations(_, _, _)
SumDeviations(states, others, price) ==
    IF others = {} THEN [n |-> 0, d |-> 1]
    ELSE LET o == CHOOSE x \in others : TRUE
             rest == SumDeviations(states, others \ {o}, price)
         IN  [n |-> rest.n * states[o].price + Abs(price - states[o].price) * rest.d,
              d |-> rest.d * states[o].price]

\* updatePrice.  The confidence score of the status (calculateConfidence) is
\* read by no health check and is left out.
OracleMonitor_updatePrice(o, source, price, timestamp, now) ==
    LET stalenessMs == now - timestamp
        others == {s \in DOMAIN o.sourceStates : s # source /\ o.sourceStates[s].price > 0}
        sum == SumDeviations(o.sourceStates, others, price)
        avgDeviation == IF others = {} THEN [n |-> 0, d |-> 1]
                        ELSE Reduced([n |-> sum.n, d |-> sum.d * Cardinality(others)])
        status == [isActive |-> stalenessMs < o.maxStalenessMs
                                /\ QuotLt(avgDeviation, o.maxDeviationPercent),
                   lastUpdate |-> timestamp, price |-> price,
                   deviation |-> avgDeviation, stalenessMs |-> stalenessMs]
    IN  [o EXCEPT !.sourceStates = MapSet(@, source, status)]

\* checkHealth: the set of issues, each a source and the kind of violation.
OracleMonitor_checkHealth_KnownOnly(o) ==
    LET issues ==
          {<<s, "Stale data">> :
              s \in {x \in DOMAIN o.sourceStates :
                       o.sourceStates[x].stalenessMs > o.maxStalenessMs}}
          \cup {<<s, "High deviation">> :
                  s \in {x \in DOMAIN o.sourceStates :
                           QuotGt(o.sourceStates[x].deviation, o.maxDeviationPercent)}}
    IN  [healthy |-> issues = {}, issues |-> issues]
OracleMonitor_checkHealth(o) ==
    LET issues ==
          {<<s, "No data received">> : s \in o.sources \ DOMAIN o.sourceStates}
          \cup {<<s, "Stale data">> :
                  s \in {x \in o.sources \cap DOMAIN o.sourceStates :
                           o.sourceStates[x].stalenessMs > o.maxStalenessMs}}
          \cup {<<s, "High deviation">> :
                  s \in {x \in o.sources \cap DOMAIN o.sourceStates :
                           QuotGt(o.sourceStates[x].deviation, o.maxDeviationPercent)}}
    IN  [healthy |-> issues = {}, issues |-> issues]

\* Inputs of the monitor on its own: the two configured sources of the tests
\* and one that is not configured, prices within and beyond 2% of each other,
\* data stamped now or ten minutes ago, time passing ten minutes at a time.
\* A feed is a source, a price and the age of the data when it arrives.
TestSources == {"source1", "source2"}
FeedAgeMs == 600000
Feeds ==
    { <<"source1", 1000, 0>>, <<"source1", 1000, FeedAgeMs>>, <<"source1", 1100, 0>>,
      <<"source2", 1001, 0>>, <<"source2", 1100, 0>>,
      <<"source3", 1000, FeedAgeMs>> }

-----------------------------------------------------------------------------
(* calculateKellyCriterion, src/src/risk/position-sizing.ts:63-86.         *)
(* The fractions passed here are multiples of 1/100, and the arithmetic is *)
(* done in hundredths so that the products stay small; for them            *)
(* On most inputs Math.floor(finalFraction * 10000) is the floor of the     *)
(* exact value.  Where the exact value of fullKelly * kellyFraction * 10000 *)
(* is an integer, the IEEE-754 evaluation of lines 77-85 can fall just      *)
(* below it, and Math.floor then gives one less: FloorShortfall lists the   *)
(* (winProbability, winLossRatio, kellyFraction) among the inputs used here *)
(* on which it does (0.4, 5, 0.25 gives 699 and not 700).                   *)

FloorShortfall ==
    { <<4000, 50000, 2500>>, <<4000, 50000, 10000>>,
      <<6000, 10000, 2500>>, <<6000, 10000, 10000>> }

KellyThrows_Strict(params) ==
    \/ params.winProbability < 0 \/ params.winProbability >= 10000
    \/ params.winLossRatio <= 0

KellyThrows(params) ==
    \/ params.winProbability <= 0 \/ params.winProbability >= 10000
    \/ params.winLossRatio <= 0

\* Mutant of calculateKellyCriterion: the cap of line 83 is left out.
calculateKellyCriterion_NoCap(params) ==
    LET p == params.winProbability \div 100
        r == params.winLossRatio \div 100
        k == params.kellyFraction \div 100
        edge == r * p - (100 - p) * 100
        short == IF <<params.winProbability, params.winLossRatio,
                      params.kellyFraction>> \in FloorShortfall THEN 1 ELSE 0
        scaled == IF edge <= 0 THEN 0 ELSE (edge * k) \div r - short
    IN  (params.bankroll * scaled) \div 10000

calculateKellyCriterion(params) ==
    LET p == params.winProbability \div 100
        r == params.winLossRatio \div 100
        k == params.kellyFraction \div 100
        \* winLossRatio * winProbability - lossProbability, in 1/10000
        edge == r * p - (100 - p) * 100
        short == IF <<params.winProbability, params.winLossRatio,
                      params.kellyFraction>> \in FloorShortfall THEN 1 ELSE 0
        \* Math.floor(Math.min(Math.max(0, fullKelly * kellyFraction), max) * 10000)
        scaled == IF edge <= 0 THEN 0
                  ELSE IF edge * k > params.maxPositionPercent * r
                  THEN params.maxPositionPercent
                  ELSE (edge * k) \div r - short
    IN  (params.bankroll * scaled) \div 10000

\* A call of calculateKellyCriterion as its caller sees it: it throws, or it
\* returns one value.
Kelly_call(params) ==
    IF KellyThrows(params)
    THEN [threw |-> TRUE, returned |-> <<>>]
    ELSE [threw |-> FALSE, returned |-> <<calculateKellyCriterion(params)>>]

\* Inputs of calculateKellyCriterion: the parameters of the tests
\* (src/src/__tests__/security.test.ts:38-94) among them.
KellyParams ==
    [bankroll : {0, 9999, 10000},
     winProbability : {0 - 100, 0, 100, 4000, 5000, 6000, 9000, 10000, 15000},
     winLossRatio : {0 - 10000, 0, 10000, 15000, 50000},
     kellyFraction : {0, 2500, 10000},
     maxPositionPercent : {0, 1000, 10000}]

-----------------------------------------------------------------------------
(* BaseAgent, src/unnamed/part_005 *)

Markets == {"m1"}
WinLossRatio == 15000
CooldownPeriodMs == 3600000

\* The AgentConfig of ConservativeBot (part_004:29-41) and of AggressiveBot
\* (aggressive-bot.ts:30-42); the whale threshold is scaled down.
AgentConfigs ==
    { [name |-> "ConservativeBot", maxPositionPercent |-> 100,
       minConfidenceThreshold |-> 7000, kellyFraction |-> 1000,
       stopLossPercent |-> 200, takeProfitPercent |-> 500,
       maxDailyDrawdownPercent |-> 300, maxTotalDrawdownPercent |-> 1000,
       whaleThreshold |-> 1000, tradingEnabled |-> TRUE],
      [name |-> "AggressiveBot", maxPositionPercent |-> 1000,
       minConfidenceThreshold |-> 3000, kellyFraction |-> 5000,
       stopLossPercent |-> 1000, takeProfitPercent |-> 3000,
       maxDailyDrawdownPercent |-> 1500, maxTotalDrawdownPercent |-> 5000,
       whaleThreshold |-> 1000, tradingEnabled |-> TRUE] }

NoDecision == [action |-> "none", amount |-> 0, marketId |-> "none", confidence |-> 0]

\* What makeTradingDecision (abstract, lines 227-230) may hand back for a
\* market: null, a HOLD, or a BUY or SELL with some confidence.  The amount
\* is filled in by validateWithRiskManagement.
Confidences == {4000, 8000, 10000}
Decisions(marketId) ==
    {NoDecision}
    \cup {[action |-> "HOLD", amount |-> 0, marketId |-> marketId, confidence |-> 8000]}
    \cup {[action |-> "SELL", amount |-> 0, marketId |-> marketId, confidence |-> 8000]}
    \cup {[action |-> "BUY", amount |-> 0, marketId |-> marketId, confidence |-> c] :
             c \in Confidences}

\* Markets and amounts handed to updatePosition on its own
PositionMarkets == {"m1", "m2"}
PositionAmounts == {1, 2}
MarketPrices == {500, 1000}
\* The snapshots handed to processMarketData: current price and liquidity
Snapshots == { <<1000, 5000>>, <<500, 5000>>, <<1000, 0>>, <<1000, 200000>> }
TradeAmounts == {1}
\* The price reports fed to the agent's oracle monitor: source, price, age (ms)
OracleReports ==
    { <<"chainlink", 100, 0>>, <<"uniswap", 100, 0>>, <<"binance", 100, 0>>,
      <<"binance", 100, 400000>> }

\* The monitor of an agent once each of its sources has reported the price
\* 100 with data stamped at the time of the report.
FedMonitor ==
    OracleMonitor_updatePrice(
        OracleMonitor_updatePrice(
            OracleMonitor_updatePrice(OracleMonitor_new(Sources), "chainlink", 100,
                                      StartTime, StartTime),
            "uniswap", 100, StartTime, StartTime),
        "binance", 100, StartTime, StartTime)

\* The fields as the constructor assigns them (lines 92-125); what comes of
\* the constructor call as a whole is BaseAgent_constructor.
BaseAgent_new(config, balance, now) ==
    [config |-> config,
     isRunning |-> FALSE,
     portfolio |-> [totalValue |-> balance, positions |-> EmptyMap, cash |-> balance],
     drawdownProtector |->
         DrawdownProtector_new(
             [maxDailyDrawdownPercent |-> config.maxDailyDrawdownPercent,
              maxTotalDrawdownPercent |-> config.maxTotalDrawdownPercent,
              cooldownPeriodMs |-> CooldownPeriodMs, pauseOnTrigger |-> TRUE],
             balance, now),
     whaleDetector |-> WhaleDetector_new(config.whaleThreshold),
     oracleMonitor |-> OracleMonitor_new(Sources),
     stopLossManagers |-> EmptyMap,
     alertHandlers |-> 0,
     delivered |-> 0,
     auditLogger |-> AuditLogger_new]

\* logEvent (lines 404-411): the agent after the call, and whether log threw.
logEvent(a, type, hasBigInt, now) ==
    LET r == AuditLogger_log(a.auditLogger,
                             [type |-> type, agent |-> a.config.name,
                              data |-> IF hasBigInt THEN "{v: 1n}" ELSE "{v: 1}",
                              timestamp |-> now],
                             now)
    IN  [a |-> [a EXCEPT !.auditLogger = r.logger], threw |-> r.threw]

getPositionSize(a, marketId) ==
    IF marketId \in DOMAIN a.portfolio.positions
    THEN a.portfolio.positions[marketId].position ELSE 0

\* checkForManipulation (lines 235-257): the probe order is a hundredth of the
\* liquidity; only a CRITICAL alert is handed back.
checkForManipulation(a, marketData, now) ==
    LET dummyOrder == [marketId |-> marketData.marketId,
                       amount |-> marketData.liquidity \div 100,
                       price |-> marketData.currentPrice, timestamp |-> now]
        r == WhaleDetector_analyzeOrder(a.whaleDetector, dummyOrder,
                                        marketData.liquidity, now)
        a1 == [a EXCEPT !.whaleDetector = r.w]
    IN  IF r.alert # NoAlert /\ r.alert.severity = "CRITICAL"
        THEN [a |-> a1, alert |-> r.alert, blockTrade |-> TRUE]
        ELSE [a |-> a1, alert |-> NoAlert, blockTrade |-> FALSE]

\* handleAlert (lines 423-428): every registered handler receives the alert,
\* then the alert is logged.  A WhaleAlert carries its amount as a bigint.
handleAlert(a, alert, now) ==
    logEvent([a EXCEPT !.delivered = @ + a.alertHandlers], "SECURITY_ALERT", TRUE, now)

\* Mutant of validateWithRiskManagement: the stop-loss tracker of the market is
\* brought up to date before the confidence threshold is examined.
validateWithRiskManagement_TrackerFirst(a, decision, marketData, now) ==
    LET hasSL == decision.marketId \in DOMAIN a.stopLossManagers
        slCheck == IF hasSL
                   THEN StopLossManager_updatePrice(a.stopLossManagers[decision.marketId],
                                                    marketData.currentPrice)
                   ELSE [m |-> 0, shouldExit |-> FALSE, reason |-> NoReason,
                         active |-> FALSE]
        a1 == IF hasSL
              THEN [a EXCEPT !.stopLossManagers[decision.marketId] = slCheck.m]
              ELSE a
    IN  IF decision.confidence < a.config.minConfidenceThreshold
        THEN [a |-> logEvent(a1, "LOW_CONFIDENCE", FALSE, now).a, threw |-> FALSE,
              gates |-> <<"confidence">>, decision |-> NoDecision]
        ELSE
        LET kellyParams == [bankroll |-> a.portfolio.totalValue,
                            winProbability |-> decision.confidence,
                            winLossRatio |-> WinLossRatio,
                            kellyFraction |-> a.config.kellyFraction,
                            maxPositionPercent |-> a.config.maxPositionPercent]
        IN  IF KellyThrows(kellyParams)
            THEN [a |-> a1, threw |-> TRUE, gates |-> <<"confidence", "sizing">>,
                  decision |-> NoDecision]
            ELSE
            LET kellySize == calculateKellyCriterion(kellyParams)
                maxPosition == (a.portfolio.totalValue * a.config.maxPositionPercent)
                                   \div 10000
                positionSize == IF kellySize < maxPosition THEN kellySize ELSE maxPosition
            IN  IF positionSize <= 0
                THEN [a |-> a1, threw |-> FALSE, gates |-> <<"confidence", "sizing">>,
                      decision |-> NoDecision]
                ELSE IF hasSL /\ slCheck.shouldExit
                THEN [a |-> logEvent(a1, "STOP_LOSS_TRIGGERED", FALSE, now).a,
                      threw |-> FALSE,
                      gates |-> <<"confidence", "sizing", "stoploss">>,
                      decision |-> [action |-> "SELL",
                                    amount |-> getPositionSize(a1, decision.marketId),
                                    marketId |-> decision.marketId,
                                    confidence |-> 10000]]
                ELSE [a |-> a1, threw |-> FALSE,
                      gates |-> <<"confidence", "sizing", "stoploss">>,
                      decision |-> [decision EXCEPT !.amount = positionSize]]

\* validateWithRiskManagement (lines 262-319): the agent after the call,
\* whether the call threw, the stages it went through, and the decision
\* returned (NoDecision for null).
validateWithRiskManagement(a, decision, marketData, now) ==
    IF decision.confidence < a.config.minConfidenceThreshold
    THEN [a |-> logEvent(a, "LOW_CONFIDENCE", FALSE, now).a, threw |-> FALSE,
          gates |-> <<"confidence">>, decision |-> NoDecision]
    ELSE
    LET kellyParams == [bankroll |-> a.portfolio.totalValue,
                        winProbability |-> decision.confidence,
                        winLossRatio |-> WinLossRatio,
                        kellyFraction |-> a.config.kellyFraction,
                        maxPositionPercent |-> a.config.maxPositionPercent]
    IN  IF KellyThrows(kellyParams)
        THEN [a |-> a, threw |-> TRUE, gates |-> <<"confidence", "sizing">>,
              decision |-> NoDecision]
        ELSE
        LET kellySize == calculateKellyCriterion(kellyParams)
            maxPosition == (a.portfolio.totalValue * a.config.maxPositionPercent)
                               \div 10000
            positionSize == IF kellySize < maxPosition THEN kellySize ELSE maxPosition
        IN  IF positionSize <= 0
            THEN [a |-> a, threw |-> FALSE, gates |-> <<"confidence", "sizing">>,
                  decision |-> NoDecision]
            ELSE
            LET hasSL == decision.marketId \in DOMAIN a.stopLossManagers
                slCheck == IF hasSL
                           THEN StopLossManager_updatePrice(
                                    a.stopLossManagers[decision.marketId],
                                    marketData.currentPrice)
                           ELSE [m |-> 0, shouldExit |-> FALSE, reason |-> NoReason,
                                 active |-> FALSE]
                a1 == IF hasSL
                      THEN [a EXCEPT !.stopLossManagers[decision.marketId] = slCheck.m]
                      ELSE a
            IN  IF hasSL /\ slCheck.shouldExit
                THEN [a |-> logEvent(a1, "STOP_LOSS_TRIGGERED", FALSE, now).a,
                      threw |-> FALSE,
                      gates |-> <<"confidence", "sizing", "stoploss">>,
                      decision |-> [action |-> "SELL",
                                    amount |-> getPositionSize(a1, decision.marketId),
                                    marketId |-> decision.marketId,
                                    confidence |-> 10000]]
                ELSE [a |-> a1, threw |-> FALSE,
                      gates |-> <<"confidence", "sizing", "stoploss">>,
                      decision |-> [decision EXCEPT !.amount = positionSize]]

\* The catch block of processMarketData (lines 208-211): log ERROR, return null.
CaughtError(a, gates, now) ==
    [a |-> logEvent(a, "ERROR", FALSE, now).a, exit |-> "error", gates |-> gates,
     decision |-> NoDecision]

\* processMarketData (lines 163-212).  decision is what makeTradingDecision
\* returns when it is reached; now is the time of the call and now2 the time
\* read by DrawdownProtector.triggerCooldown.  The result holds the agent
\* after the call, the way the call ended ("not_running", "rejected" for a
\* return of null from a gate, "error" for the catch block, "approved"), the
\* gates gone through in order, and the decision returned.
BaseAgent_processMarketData(a, marketData, decision, now, now2) ==
    IF ~a.isRunning \/ ~a.config.tradingEnabled
    THEN [a |-> a, exit |-> "not_running", gates |-> <<>>, decision |-> NoDecision]
    ELSE
    LET drawdownStatus == DrawdownProtector_updateValue(a.drawdownProtector,
                              a.portfolio.totalValue, now, now2)
        a1 == [a EXCEPT !.drawdownProtector = drawdownStatus.p]
        t1 == IF drawdownStatus.status = "CRITICAL" THEN now2 ELSE now
    IN  IF ~drawdownStatus.canTrade
        THEN [a |-> logEvent(a1, "DRAWDOWN_HALT", FALSE, t1).a, exit |-> "rejected",
              gates |-> <<"drawdown">>, decision |-> NoDecision]
        ELSE
        LET oracleHealth == OracleMonitor_checkHealth(a1.oracleMonitor)
        IN  IF ~oracleHealth.healthy
            THEN [a |-> logEvent(a1, "ORACLE_UNHEALTHY", FALSE, t1).a,
                  exit |-> "rejected", gates |-> <<"drawdown", "oracle">>,
                  decision |-> NoDecision]
            ELSE
            LET manipulationCheck == checkForManipulation(a1, marketData, t1)
                a2 == manipulationCheck.a
                handled == handleAlert(a2, manipulationCheck.alert, t1)
                g3 == <<"drawdown", "oracle", "manipulation">>
            IN  IF manipulationCheck.alert # NoAlert /\ handled.threw
                THEN CaughtError(handled.a, g3, t1)
                ELSE IF manipulationCheck.alert # NoAlert /\ manipulationCheck.blockTrade
                THEN [a |-> handled.a, exit |-> "rejected", gates |-> g3,
                      decision |-> NoDecision]
                ELSE
                LET a3 == IF manipulationCheck.alert # NoAlert THEN handled.a ELSE a2
                    g4 == Append(g3, "strategy")
                IN  IF decision = NoDecision \/ decision.action = "HOLD"
                    THEN [a |-> a3, exit |-> "rejected", gates |-> g4,
                          decision |-> NoDecision]
                    ELSE
                    LET v == validateWithRiskManagement(a3, decision, marketData, t1)
                        g7 == g4 \o v.gates
                        \* the payload of TRADE_DECISION holds the bigint amount
                        logged == logEvent(v.a, "TRADE_DECISION", TRUE, t1)
                    IN  IF v.threw THEN CaughtError(v.a, g7, t1)
                        ELSE IF v.decision = NoDecision
                        THEN [a |-> v.a, exit |-> "rejected", gates |-> g7,
                              decision |-> NoDecision]
                        ELSE IF logged.threw THEN CaughtError(logged.a, g7, t1)
                        ELSE [a |-> logged.a, exit |-> "approved", gates |-> g7,
                              decision |-> v.decision]

\* start (lines 131-142) and stop (lines 147-158).  Both payloads hold a
\* bigint (config.whaleThreshold, portfolio.totalValue): log throws after
\* isRunning has been assigned, and the rejection goes to the caller.
BaseAgent_start(a, now) ==
    logEvent([a EXCEPT !.isRunning = TRUE], "AGENT_START", TRUE, now).a

BaseAgent_stop(a, now) ==
    logEvent([a EXCEPT !.isRunning = FALSE], "AGENT_STOP", TRUE, now).a

RECURSIVE PositionValue(_, _)
PositionValue(positions, markets) ==
    IF markets = {} THEN 0
    ELSE LET m == CHOOSE x \in markets : TRUE
         IN  positions[m].position * positions[m].currentPrice
                 + PositionValue(positions, markets \ {m})

\* updateTotalValue (lines 385-391)
updateTotalValue(a) ==
    [a EXCEPT !.portfolio.totalValue =
        a.portfolio.cash + PositionValue(a.portfolio.positions,
                                         DOMAIN a.portfolio.positions)]

\* Mutant of dropTracker: the tracker of a closed position stays.
dropTracker_Keep(managers, marketId) == managers

\* Line 364 of updatePosition: this.stopLossManagers.delete(marketId)
dropTracker(managers, marketId) == MapDelete(managers, marketId)

\* updatePosition (lines 324-380).  The POSITION_UPDATE payload holds bigints,
\* so log throws once the portfolio has been updated.  The timestamp of a
\* position is read nowhere and is left out.
BaseAgent_updatePosition(a, marketId, amount, price, isBuy, now) ==
    LET positions == a.portfolio.positions
        exists == marketId \in DOMAIN positions
        bought ==
            LET newPositions ==
                    IF exists
                    THEN LET totalValue == positions[marketId].position
                                               * positions[marketId].entryPrice
                                           + amount * price
                             totalPosition == positions[marketId].position + amount
                         IN  [positions EXCEPT ![marketId].entryPrice =
                                                   totalValue \div totalPosition,
                                               ![marketId].position = totalPosition]
                    ELSE MapSet(positions, marketId,
                                [position |-> amount, entryPrice |-> price,
                                 currentPrice |-> price])
                slParams == [entryPrice |-> price,
                             stopLossPercent |-> a.config.stopLossPercent,
                             takeProfitPercent |-> a.config.takeProfitPercent,
                             trailingStopPercent |-> 0]
            IN  [a EXCEPT !.portfolio.positions = newPositions,
                          !.stopLossManagers =
                              MapSet(@, marketId, StopLossManager_new(slParams)),
                          !.portfolio.cash = @ - amount * price]
        sold ==
            LET remaining == positions[marketId].position - amount
                a1 == IF ~exists THEN a
                      ELSE IF remaining <= 0
                      THEN [a EXCEPT !.portfolio.positions = MapDelete(@, marketId),
                                     !.stopLossManagers = dropTracker(@, marketId)]
                      ELSE [a EXCEPT !.portfolio.positions[marketId].position = remaining]
            IN  [a1 EXCEPT !.portfolio.cash = @ + amount * price]
    IN  logEvent(updateTotalValue(IF isBuy THEN bought ELSE sold),
                 "POSITION_UPDATE", TRUE, now).a

-----------------------------------------------------------------------------
(* WashTradingDetector, src/src/security/anti-manipulation.ts:203-342.     *)
(* A trade carries the fields the detector reads: marketId, buyer, seller,  *)
(* amount, timestamp.  tradeHistory is a Map from a market to the array of  *)
(* trades stored for it; marketKeys is the order in which its keys were     *)
(* inserted, which is the order a Map is iterated in.  The addressPairs Map *)
(* of the class is never written or read and is left out.  Confidences are  *)
(* fractions in units of 1/10000.                                          *)

Min2(a, b) == IF a <= b THEN a ELSE b

WashAddresses == {"0xA", "0xa", "0xB", "0xC"}

\* String.prototype.toLowerCase on the addresses used
toLowerCase(address) ==
    CASE address = "0xA" -> "0xa"
      [] address = "0xB" -> "0xb"
      [] address = "0xC" -> "0xc"
      [] OTHER -> address

\* The order of the addresses used under Array.prototype.sort (UTF-16 code
\* units: upper case before lower case)
AddressRank(address) ==
    CASE address = "0xA" -> 1
      [] address = "0xB" -> 2
      [] address = "0xC" -> 3
      [] address = "0xa" -> 4
      [] address = "0xb" -> 5
      [] address = "0xc" -> 6

\* [a, b].sort()
sortedPair(a, b) == IF AddressRank(a) <= AddressRank(b) THEN <<a, b>> ELSE <<b, a>>

\* The elements of an array in the order of their first occurrence: the
\* iteration order of a Map or Set the elements were added to in array order.
RECURSIVE Distinct(_)
Distinct(seq) ==
    IF seq = <<>> THEN <<>>
    ELSE LET front == Distinct(SubSeq(seq, 1, Len(seq) - 1))
             last == seq[Len(seq)]
         IN  IF \E i \in 1..Len(front) : front[i] = last THEN front
             ELSE Append(front, last)

NoWashAlert == [type |-> "null", severity |-> "null", addresses |-> <<>>,
                marketId |-> "null", volume |-> 0, confidence |-> 0]

\* constructor (lines 209-214)
WashTradingDetector_new(minTradeCount, timeWindowMs) ==
    [minTradeCount |-> minTradeCount, timeWindowMs |-> timeWindowMs,
     tradeHistory |-> EmptyMap, marketKeys |-> <<>>]

\* the self-trading test of analyzeTrades (line 222)
isSelfTrade_CaseSensitive(trade) == trade.buyer = trade.seller
isSelfTrade(trade) == toLowerCase(trade.buyer) = toLowerCase(trade.seller)

\* storeTrade (lines 337-341)
storeTrade(d, trade) ==
    LET known == trade.marketId \in DOMAIN d.tradeHistory
        marketTrades == IF known THEN d.tradeHistory[trade.marketId] ELSE <<>>
    IN  [d EXCEPT !.tradeHistory = MapSet(@, trade.marketId, Append(marketTrades, trade)),
                  !.marketKeys = IF known THEN @ ELSE Append(@, trade.marketId)]

\* trades.filter(t => t.timestamp > cutoff) (lines 254, 310)
recentTrades(trades, cutoff) == SelectSeq(trades, LAMBDA t : t.timestamp > cutoff)

\* The keys of the trading graph in insertion order: buyer, then seller, of
\* each recent trade (lines 260-268)
RECURSIVE graphKeys(_)
graphKeys(recent) ==
    IF recent = <<>> THEN <<>>
    ELSE LET t == recent[Len(recent)]
         IN  Distinct(graphKeys(SubSeq(recent, 1, Len(recent) - 1))
                      \o <<toLowerCase(t.buyer), toLowerCase(t.seller)>>)

\* The Set graph.get(addr) in insertion order (lines 267-268)
RECURSIVE connections(_, _)
connections(recent, addr) ==
    IF recent = <<>> THEN <<>>
    ELSE LET t == recent[Len(recent)]
             buyer == toLowerCase(t.buyer)
             seller == toLowerCase(t.seller)
         IN  Distinct(connections(SubSeq(recent, 1, Len(recent) - 1), addr)
                      \o (IF buyer = addr THEN <<seller>> ELSE <<>>)
                      \o (IF seller = addr THEN <<buyer>> ELSE <<>>))

\* The trades between two addresses, in either direction (lines 282-286)
tradesBetween_OneWay(recent, addr1, addr2) ==
    SelectSeq(recent, LAMBDA t :
        toLowerCase(t.buyer) = addr1 /\ toLowerCase(t.seller) = addr2)
tradesBetween(recent, addr1, addr2) ==
    SelectSeq(recent, LAMBDA t :
        \/ toLowerCase(t.buyer) = addr1 /\ toLowerCase(t.seller) = addr2
        \/ toLowerCase(t.buyer) = addr2 /\ toLowerCase(t.seller) = addr1)

\* volumeBetween.get(pair): the amounts of the recent trades whose sorted
\* lower-case pair is the pair of addr1 and addr2 (lines 270-272, 278-279)
RECURSIVE volumeBetween(_, _, _)
volumeBetween(recent, addr1, addr2) ==
    IF recent = <<>> THEN 0
    ELSE LET t == recent[Len(recent)]
             rest == volumeBetween(SubSeq(recent, 1, Len(recent) - 1), addr1, addr2)
         IN  IF sortedPair(toLowerCase(t.buyer), toLowerCase(t.seller))
                    = sortedPair(addr1, addr2)
             THEN rest + t.amount ELSE rest

\* The (addr1, addr2) pairs in the order the two loops of lines 276-277 visit
\* them
RECURSIVE graphEdges(_, _, _)
graphEdges(recent, keys, i) ==
    IF i > Len(keys) THEN <<>>
    ELSE LET cs == connections(recent, keys[i])
         IN  [j \in 1..Len(cs) |-> <<keys[i], cs[j]>>] \o graphEdges(recent, keys, i + 1)

\* detectCircularTrading (lines 252-303)
detectCircularTrading(d, marketId, cutoff) ==
    LET trades == IF marketId \in DOMAIN d.tradeHistory THEN d.tradeHistory[marketId]
                  ELSE <<>>
        recent == recentTrades(trades, cutoff)
        edges == graphEdges(recent, graphKeys(recent), 1)
        hits == SelectSeq(edges, LAMBDA e :
                    Len(tradesBetween(recent, e[1], e[2])) >= d.minTradeCount)
    IN  IF hits = <<>> THEN NoWashAlert
        ELSE LET addr1 == hits[1][1]
                 addr2 == hits[1][2]
             IN  [type |-> "CIRCULAR_TRADING", severity |-> "HIGH",
                  addresses |-> <<addr1, addr2>>, marketId |-> marketId,
                  volume |-> volumeBetween(recent, addr1, addr2),
                  confidence |->
                      Min2(Len(tradesBetween(recent, addr1, addr2)) * 1000, 10000)]

\* The recent trades of every market, in the order of lines 309-312
RECURSIVE allRecent(_, _, _)
allRecent(d, cutoff, i) ==
    IF i > Len(d.marketKeys) THEN <<>>
    ELSE recentTrades(d.tradeHistory[d.marketKeys[i]], cutoff) \o allRecent(d, cutoff, i + 1)

\* detectVolumeInflation (lines 305-335); the pair key joins the addresses as
\* they were given, not lower-cased.
detectVolumeInflation(d, cutoff) ==
    LET recent == allRecent(d, cutoff, 1)
        pairOf(t) == sortedPair(t.buyer, t.seller)
        pairs == Distinct([i \in 1..Len(recent) |-> pairOf(recent[i])])
        count(pair) == Len(SelectSeq(recent, LAMBDA t : pairOf(t) = pair))
        hits == SelectSeq(pairs, LAMBDA pair : count(pair) >= d.minTradeCount * 2)
    IN  IF hits = <<>> THEN NoWashAlert
        ELSE [type |-> "VOLUME_INFLATION",
              severity |-> IF count(hits[1]) > 20 THEN "CRITICAL" ELSE "MEDIUM",
              addresses |-> hits[1], marketId |-> "multiple", volume |-> 0,
              confidence |-> Min2(count(hits[1]) * 200, 10000)]

\* The loop of analyzeTrades from the i-th trade on, and what follows it
\* (lines 220-249)
RECURSIVE analyzeFrom(_, _, _, _)
analyzeFrom(d, trades, i, cutoff) ==
    IF i > Len(trades) THEN [d |-> d, alert |-> detectVolumeInflation(d, cutoff)]
    ELSE IF isSelfTrade(trades[i])
         THEN [d |-> d,
               alert |-> [type |-> "SELF_TRADING", severity |-> "CRITICAL",
                          addresses |-> <<trades[i].buyer>>,
                          marketId |-> trades[i].marketId, volume |-> trades[i].amount,
                          confidence |-> 10000]]
         ELSE LET d1 == storeTrade(d, trades[i])
                  pattern == detectCircularTrading(d1, trades[i].marketId, cutoff)
              IN  IF pattern # NoWashAlert THEN [d |-> d1, alert |-> pattern]
                  ELSE analyzeFrom(d1, trades, i + 1, cutoff)

\* analyzeTrades (lines 216-250), Date.now() returning now
WashTradingDetector_analyzeTrades(d, trades, now) ==
    analyzeFrom(d, trades, 1, now - d.timeWindowMs)

\* Inputs: two markets, a time window of one hour as in the tests, trades
\* stamped now or just outside the window.
WashMarkets == {"M1", "M2"}
WashWindowMs == 3600000
MinTradeCounts == {2, 3}
WashTrade(marketId, buyer, seller, timestamp) ==
    [marketId |-> marketId, buyer |-> buyer, seller |-> seller, amount |-> 100,
     timestamp |-> timestamp]
BatchTrades(now) ==
    { WashTrade("M1", p[1], p[2], now) :
        p \in { <<"0xA", "0xB">>, <<"0xB", "0xA">>, <<"0xa", "0xB">>, <<"0xA", "0xC">>,
                <<"0xA", "0xA">>, <<"0xA", "0xa">> } }
WashTrades(now) ==
    BatchTrades(now)
        \cup { WashTrade("M1", "0xA", "0xB", now - WashWindowMs - 1),
               WashTrade("M2", "0xA", "0xB", now), WashTrade("M2", "0xB", "0xA", now) }
\* The array of the test 'should detect circular trading'
AlternatingTrades(now) ==
    << WashTrade("M1", "0xA", "0xB", now), WashTrade("M1", "0xB", "0xA", now),
       WashTrade("M1", "0xA", "0xB", now) >>
TradeArrays(now) ==
    { <<t>> : t \in WashTrades(now) }
        \cup { <<t1, t2>> : t1 \in BatchTrades(now), t2 \in BatchTrades(now) }
        \cup { AlternatingTrades(now) }
\* A detector that has been handed nine alternating trades of one pair
BusyHistory(now) ==
    [i \in 1..9 |-> IF i % 2 = 1 THEN WashTrade("M1", "0xA", "0xB", now)
                    ELSE WashTrade("M1", "0xB", "0xA", now)]

-----------------------------------------------------------------------------
(* SandwichProtector, src/src/security/anti-manipulation.ts:455-597: the    *)
(* pending transactions and preTradeCheck.  An order carries the fields the *)
(* check reads: marketId, trader, amount, timestamp.  pendingTxs is a Map   *)
(* from a transaction hash to an order; the check does not depend on the    *)
(* order of its values.  blockWindow and blockHistory serve analyzeBlock     *)
(* only and are left out.                                                   *)

\* An absent recommendedSlippage
Undefined == -1

\* constructor (lines 461-466)
SandwichProtector_new(maxSlippagePercent) ==
    [maxSlippagePercent |-> maxSlippagePercent, pendingTxs |-> EmptyMap]

\* addPendingTx (lines 590-592)
SandwichProtector_addPendingTx(s, txHash, order) ==
    [s EXCEPT !.pendingTxs = MapSet(@, txHash, order)]

\* removePendingTx (lines 594-596)
SandwichProtector_removePendingTx(s, txHash) ==
    [s EXCEPT !.pendingTxs = MapDelete(@, txHash)]

\* The pending transactions of the market of the order (lines 473-474)
marketOrders(s, userOrder) ==
    {h \in DOMAIN s.pendingTxs : s.pendingTxs[h].marketId = userOrder.marketId}

\* The large pending orders among them (lines 477-479)
largeOrders_AnyTrader(s, userOrder) ==
    {h \in marketOrders(s, userOrder) : s.pendingTxs[h].amount >= userOrder.amount * 2}
largeOrders(s, userOrder) ==
    {h \in marketOrders(s, userOrder) :
        /\ s.pendingTxs[h].amount >= userOrder.amount * 2
        /\ s.pendingTxs[h].trader # userOrder.trader}

\* The sum of the sizes, and of their squares, of a group of pending orders
\* (lines 540-542)
RECURSIVE SumSizes(_, _)
SumSizes(s, hashes) ==
    IF hashes = {} THEN 0
    ELSE LET h == CHOOSE x \in hashes : TRUE
         IN  s.pendingTxs[h].amount + SumSizes(s, hashes \ {h})
RECURSIVE SumSquares(_, _)
SumSquares(s, hashes) ==
    IF hashes = {} THEN 0
    ELSE LET h == CHOOSE x \in hashes : TRUE
         IN  s.pendingTxs[h].amount * s.pendingTxs[h].amount
                 + SumSquares(s, hashes \ {h})

\* detectSuspiciousMempool (lines 527-552): some group of at least three
\* orders of one second has a variance of sizes below a tenth of their mean.
\* With n sizes of sum S and sum of squares Q the variance is
\* (n * Q - S * S) / (n * n) and the mean S / n, so the test is
\* 10 * (n * Q - S * S) < S * n.
detectSuspiciousMempool(s, hashes) ==
    LET timeKey(h) == s.pendingTxs[h].timestamp \div 1000
        group(k) == {h \in hashes : timeKey(h) = k}
        lowVariance(g) ==
            LET n == Cardinality(g)
                sum == SumSizes(s, g)
                squares == SumSquares(s, g)
            IN  10 * (n * squares - sum * sum) < sum * n
    IN  \E h \in hashes : Cardinality(group(timeKey(h))) >= 3 /\ lowVariance(group(timeKey(h)))

\* preTradeCheck (lines 468-500)
SandwichProtector_preTradeCheck(s, userOrder) ==
    IF largeOrders(s, userOrder) # {}
    THEN [safe |-> FALSE, warning |-> "Large pending orders detected - sandwich risk",
          recommendedSlippage |-> s.maxSlippagePercent * 2]
    ELSE IF detectSuspiciousMempool(s, marketOrders(s, userOrder))
         THEN [safe |-> FALSE, warning |-> "Coordinated order pattern detected",
               recommendedSlippage |-> s.maxSlippagePercent]
         ELSE [safe |-> TRUE, warning |-> "undefined", recommendedSlippage |-> Undefined]

\* Inputs: the protector of the tests (slippage limit 0.01) and a tighter one;
\* pending orders of the caller's size, just below, at and above twice that
\* size, by the caller and by another trader, in the caller's market and in
\* another, in the caller's second and in the next.
SlippageLimits == {50, 100}
PendingOrder(marketId, trader, amount, timestamp) ==
    [marketId |-> marketId, trader |-> trader, amount |-> amount, timestamp |-> timestamp]
PendingOrders(now) ==
    { PendingOrder("M1", "0xWHALE", 100, now), PendingOrder("M1", "0xWHALE", 199, now),
      PendingOrder("M1", "0xWHALE", 200, now), PendingOrder("M1", "0xWHALE", 300, now),
      PendingOrder("M1", "0xUSER", 300, now), PendingOrder("M2", "0xWHALE", 300, now),
      PendingOrder("M1", "0xWHALE", 100, now + 1000) }
UserOrders(now) ==
    { PendingOrder("M1", "0xUSER", 100, now), PendingOrder("M1", "0xUSER", 150, now),
      PendingOrder("M2", "0xUSER", 100, now) }

-----------------------------------------------------------------------------
(* PortfolioBalancer.constructor, src/src/risk/position-sizing.ts:203-217.  *)
(* targetAllocations is a Map from a market to a fraction in units of       *)
(* 1/10000.  The sums of the allocations used below differ from 1.0 by      *)
(* 0.005 at most or by 0.018 at least, where the sum of the doubles in any  *)
(* order of insertion compares with the tolerance 0.01 as the exact sum     *)
(* does; a decimal sum of exactly 0.99 or 1.01 does not occur.              *)

\* Array.from(targetAllocations.values()).reduce((a, b) => a + b, 0)
RECURSIVE allocationTotal(_)
allocationTotal(targetAllocations) ==
    IF DOMAIN targetAllocations = {} THEN 0
    ELSE LET k == CHOOSE x \in DOMAIN targetAllocations : TRUE
         IN  targetAllocations[k] + allocationTotal(MapDelete(targetAllocations, k))

\* Math.abs(total - 1.0) > 0.01 (line 214)
allocationsInvalid_OneSided(total) == total - 10000 > 100
allocationsInvalid(total) == Abs(total - 10000) > 100

\* The constructor: whether it threw, and the object it built otherwise
PortfolioBalancer_new(targetAllocations, rebalanceThreshold) ==
    IF allocationsInvalid(allocationTotal(targetAllocations))
    THEN [threw |-> TRUE, message |-> "Target allocations must sum to 1.0",
          balancer |-> <<>>]
    ELSE [threw |-> FALSE, message |-> "",
          balancer |-> [targetAllocations |-> targetAllocations,
                        rebalanceThreshold |-> rebalanceThreshold,
                        maxSlippagePercent |-> 10000]]

\* Inputs: Maps over three markets, each absent or with one of a few
\* fractions, among them the empty Map
AllocationChoices ==
    [a |-> {Undefined, 5000, 10000, 15000},
     b |-> {Undefined, -5000, 4800, 4950, 5000, 5050, 5200},
     c |-> {Undefined, 0, 20}]
AllocationMap(choice) ==
    [k \in {m \in DOMAIN choice : choice[m] # Undefined} |-> choice[k]]
TargetAllocations ==
    { AllocationMap(choice) :
        choice \in [a : AllocationChoices.a, b : AllocationChoices.b,
                    c : AllocationChoices.c] }
RebalanceThresholds == {200, 500}

-----------------------------------------------------------------------------
(* calculateFixedFractional, src/src/risk/position-sizing.ts:92-99.  Its    *)
(* fraction is carried in units of 1/100000, so that fractions finer than   *)
(* 1/10000 occur.                                                           *)

\* The fractions f of FixedFractions for which the double f * 10000 lies just
\* below the integer the decimal product is (0.0029 * 10000 is
\* 28.999999999999996)
FixedFloorShortfall == {290}

\* Math.floor(fraction * 10000)
FloorTimes10000(fraction) ==
    IF fraction \in FixedFloorShortfall THEN fraction \div 10 - 1 ELSE fraction \div 10

\* `maxPosition && position > maxPosition`: undefined and 0n are both falsy
capApplies(position, maxPosition) ==
    maxPosition # Undefined /\ maxPosition # 0 /\ position > maxPosition

calculateFixedFractional(bankroll, fraction, maxPosition) ==
    LET position == (bankroll * FloorTimes10000(fraction)) \div 10000
    IN  IF capApplies(position, maxPosition) THEN maxPosition ELSE position

\* Inputs: the bankroll and the fractions of the tests and others, a cap that
\* is absent, zero, binding or not binding
FixedBankrolls == {0, 9999, 10000}
FixedFractions == {0, 5, 290, 5000, 10000, 12345, 100000}
MaxPositions == {Undefined, 0, 500, 100000}

-----------------------------------------------------------------------------
(* ReputationClient and ReputationGuard,                                    *)
(* src/src/security/anti-manipulation.ts:634-706, 898-998.  The HTTP        *)
(* service is outside the program: each fetch the client makes has an       *)
(* outcome the environment chooses, a thrown error, a response that is not  *)
(* OK, or an OK response with a score and flags.  Of a reason only the      *)
(* fixed text that starts it is carried.                                    *)

CacheTtlMs == 300000

\* String.prototype.toUpperCase on the flags used
toUpperCase(flag) ==
    CASE flag = "scam" -> "SCAM"
      [] OTHER -> flag

FetchFailures == {[kind |-> "throws"], [kind |-> "not ok"]}
FetchOutcomes ==
    FetchFailures
        \cup { [kind |-> "ok", score |-> 0, flags |-> <<>>],
               [kind |-> "ok", score |-> 20, flags |-> <<>>],
               [kind |-> "ok", score |-> 80, flags |-> <<>>],
               [kind |-> "ok", score |-> 80, flags |-> <<"scam">>],
               [kind |-> "ok", score |-> 10, flags |-> <<"EXPLOIT">>] }

\* constructor of the client (lines 640-644) and of the guard (941-947)
ReputationClient_new == [cache |-> EmptyMap, cacheTtlMs |-> CacheTtlMs]
ReputationGuard_new(minReputationScore) ==
    [client |-> ReputationClient_new, minReputationScore |-> minReputationScore,
     blockedAddresses |-> {}]

\* mapTrustLevel (lines 908-914)
mapTrustLevel(score) ==
    IF score >= 90 THEN "VERIFIED"
    ELSE IF score >= 70 THEN "HIGH"
    ELSE IF score >= 50 THEN "MEDIUM"
    ELSE IF score >= 30 THEN "LOW"
    ELSE "UNTRUSTED"

\* getDefaultReputation (lines 898-906); lastUpdated is read by nothing
getDefaultReputation(address) ==
    [address |-> address, score |-> 50, trustLevel |-> "MEDIUM", flags |-> <<>>]

\* getFromCache (lines 916-922): the entry of a key, if it has not expired
cacheHit(c, key, now) == key \in DOMAIN c.cache /\ c.cache[key].expires > now

\* setCache (lines 924-929)
setCache(c, key, data, now) ==
    [c EXCEPT !.cache = MapSet(@, key, [data |-> data, expires |-> now + c.cacheTtlMs])]

\* getReputation (lines 649-679): the client after the call, the score
\* returned, whether the service was asked and whether asking failed
ReputationClient_getReputation(c, address, now, outcome) ==
    IF cacheHit(c, address, now)
    THEN [c |-> c, reputation |-> c.cache[address].data, fetched |-> FALSE,
          failed |-> FALSE]
    ELSE IF outcome \in FetchFailures
    THEN [c |-> c, reputation |-> getDefaultReputation(address), fetched |-> TRUE,
          failed |-> TRUE]
    ELSE LET score == [address |-> address,
                       score |-> IF outcome.score = 0 THEN 50 ELSE outcome.score,
                       trustLevel |-> mapTrustLevel(outcome.score),
                       flags |-> outcome.flags]
         IN  [c |-> setCache(c, address, score, now), reputation |-> score,
              fetched |-> TRUE, failed |-> FALSE]

\* isFlagged (lines 684-706)
ReputationClient_isFlagged(c, address, now, outcome) ==
    LET r == ReputationClient_getReputation(c, address, now, outcome)
        flags == r.reputation.flags
        has(list) == \E i \in 1..Len(flags) : toUpperCase(flags[i]) \in list
        hasCritical == has({"EXPLOIT", "RUGPULL", "PHISHING", "SANCTIONED"})
        hasHigh == has({"HONEYPOT", "SCAM", "COPYCAT"})
    IN  [c |-> r.c, flagged |-> Len(flags) > 0, reasons |-> flags,
         severity |-> IF hasCritical THEN "CRITICAL" ELSE IF hasHigh THEN "HIGH" ELSE "LOW",
         fetched |-> r.fetched, failed |-> r.failed]

\* canInteract (lines 952-975).  outcomes are the outcomes of the first and of
\* the second fetch the call may make; lookups is what became of the fetches
\* it did make.
ReputationGuard_canInteract(g, address, now, outcomes) ==
    IF toLowerCase(address) \in g.blockedAddresses
    THEN [g |-> g, allowed |-> FALSE, reason |-> "Locally blocked", lookups |-> <<>>]
    ELSE LET f == ReputationClient_isFlagged(g.client, address, now, outcomes[1])
             first == IF f.fetched THEN <<f.failed>> ELSE <<>>
         IN  IF f.flagged /\ f.severity = "CRITICAL"
             THEN [g |-> [g EXCEPT !.client = f.c,
                                   !.blockedAddresses = @ \cup {toLowerCase(address)}],
                   allowed |-> FALSE, reason |-> "Critical flags", lookups |-> first]
             ELSE LET r == ReputationClient_getReputation(f.c, address, now, outcomes[2])
                      lookups == first \o (IF r.fetched THEN <<r.failed>> ELSE <<>>)
                      g1 == [g EXCEPT !.client = r.c]
                  IN  IF r.reputation.score < g.minReputationScore
                      THEN [g |-> g1, allowed |-> FALSE, reason |-> "Reputation too low",
                            lookups |-> lookups]
                      ELSE [g |-> g1, allowed |-> TRUE, reason |-> "undefined",
                            lookups |-> lookups]

\* Mutant of blockAddress: the address is stored as it was given.
ReputationGuard_blockAddress_AsGiven(g, address) ==
    [g EXCEPT !.blockedAddresses = @ \cup {address}]

\* blockAddress (lines 980-983) and unblockAddress (988-990)
ReputationGuard_blockAddress(g, address) ==
    [g EXCEPT !.blockedAddresses = @ \cup {toLowerCase(address)}]
ReputationGuard_unblockAddress(g, address) ==
    [g EXCEPT !.blockedAddresses = @ \ {toLowerCase(address)}]

\* Inputs: the default minimum score and one above the default score of 50;
\* one address in two spellings; blockAddress and unblockAddress are called
\* for a second address as well
MinReputationScores == {30, 60}
GuardAddresses == {"0xA", "0xa"}
BlockAddresses == GuardAddresses \cup {"0xB"}

-----------------------------------------------------------------------------
(* The BaseAgent constructor as a call, src/unnamed/part_005:87-126: the    *)
(* subclasses ConservativeBot, BalancedBot and AggressiveBot call it first  *)
(* thing (super), and createAgent calls theirs.  Line 114 hands the         *)
(* PortfolioBalancer constructor an empty Map of allocations.               *)

\* Whether the call threw, and the agent it built.
BaseAgent_constructor(config, rebalanceThreshold, balance, now) ==
    LET balancer == PortfolioBalancer_new(EmptyMap, rebalanceThreshold)
    IN  IF balancer.threw
        THEN [threw |-> TRUE, message |-> balancer.message, agent |-> <<>>]
        ELSE [threw |-> FALSE, message |-> "",
              agent |-> <<BaseAgent_new(config, balance, now)>>]

\* Wallet balances an agent is constructed with
WalletBalances == {0, 1, 2, 5, 10, 20, 50, 100, 200, 500, 1000, 2000, 5000, 10000}

-----------------------------------------------------------------------------
(* processMarketData as the event loop runs it: an async function runs     *)
(* until its next await, and other calls on the agent may run before it    *)
(* is resumed.  A flight is one call with the place it is suspended at:     *)
(*   "manipulation"  await this.checkForManipulation(...)       (line 184) *)
(*   "alert"         await this.handleAlert(...)                (line 186) *)
(*   "strategy"      await this.makeTradingDecision(...)        (line 193) *)
(*   "validate"      await this.validateWithRiskManagement(...) (line 199) *)
(*   "log"           await this.logEvent(...) that was fulfilled            *)
(*   "thrown"        an await whose promise was rejected: the catch block   *)
(*                   runs next                                             *)
(*   "done"          the call has returned.                                *)
(* The callees are async too, and nothing in them runs after their own     *)
(* awaits but a return, so an await inside a callee and the await on the   *)
(* callee are one suspension.  AuditLogger.log in local mode has no await  *)
(* before it stores the entry: the entry is stored before logEvent         *)
(* suspends.  running and stopped are observations of the call, not fields *)
(* of the program: isRunning as the call found it, and whether stop() was  *)
(* called while the call was suspended.                                    *)

NoFlight ==
    [pc |-> "none", marketData |-> <<>>, strategy |-> NoDecision, alert |-> NoAlert,
     blockTrade |-> FALSE, validated |-> NoDecision, exit |-> "none", gates |-> <<>>,
     decision |-> NoDecision, logged |-> 0, running |-> FALSE, stopped |-> FALSE]

InFlight(f) == f.pc \notin {"none", "done"}

\* Mutant of notTrading: the call looks at the configuration only.
notTrading_ConfigOnly(a) == ~a.config.tradingEnabled

\* Line 164 of processMarketData.
notTrading(a) == ~a.isRunning \/ ~a.config.tradingEnabled

\* logEvent called by a flight, after which the flight suspends: the entry is
\* stored and the flight is to end with exit, or log threw.
flightLog(a, f, type, hasBigInt, now, exit) ==
    LET r == logEvent(a, type, hasBigInt, now)
    IN  IF r.threw THEN [a |-> r.a, f |-> [f EXCEPT !.pc = "thrown"]]
        ELSE [a |-> r.a,
              f |-> [f EXCEPT !.pc = "log", !.exit = exit, !.logged = @ + 1]]

\* processMarketData from the call to its first suspension (lines 163-184).
BaseAgent_callProcessMarketData(a, marketData, strategy, now, now2) ==
    LET f0 == [NoFlight EXCEPT !.marketData = marketData, !.strategy = strategy,
                               !.running = a.isRunning]
    IN  IF notTrading(a)
        THEN [a |-> a, f |-> [f0 EXCEPT !.pc = "done", !.exit = "not_running"]]
        ELSE
        LET drawdownStatus == DrawdownProtector_updateValue(a.drawdownProtector,
                                  a.portfolio.totalValue, now, now2)
            a1 == [a EXCEPT !.drawdownProtector = drawdownStatus.p]
            t1 == IF drawdownStatus.status = "CRITICAL" THEN now2 ELSE now
        IN  IF ~drawdownStatus.canTrade
            THEN flightLog(a1, [f0 EXCEPT !.gates = <<"drawdown">>], "DRAWDOWN_HALT",
                           FALSE, t1, "rejected")
            ELSE IF ~OracleMonitor_checkHealth(a1.oracleMonitor).healthy
            THEN flightLog(a1, [f0 EXCEPT !.gates = <<"drawdown", "oracle">>],
                           "ORACLE_UNHEALTHY", FALSE, t1, "rejected")
            ELSE LET manipulationCheck == checkForManipulation(a1, marketData, t1)
                 IN  [a |-> manipulationCheck.a,
                      f |-> [f0 EXCEPT !.pc = "manipulation",
                                       !.gates = <<"drawdown", "oracle", "manipulation">>,
                                       !.alert = manipulationCheck.alert,
                                       !.blockTrade = manipulationCheck.blockTrade]]

\* processMarketData from the suspension f.pc to the next one (lines 185-211).
BaseAgent_resumeProcessMarketData(a, f, now) ==
    LET returned == [a |-> a, f |-> [f EXCEPT !.pc = "done", !.exit = "rejected"]]
        toStrategy == [a |-> a, f |-> [f EXCEPT !.pc = "strategy",
                                                !.gates = Append(@, "strategy")]]
    IN  CASE f.pc = "manipulation" ->
               IF f.alert = NoAlert THEN toStrategy
               ELSE LET handled == handleAlert(a, f.alert, now)
                    IN  IF handled.threw
                        THEN [a |-> handled.a, f |-> [f EXCEPT !.pc = "thrown"]]
                        ELSE [a |-> handled.a,
                              f |-> [f EXCEPT !.pc = "alert", !.logged = @ + 1]]
          [] f.pc = "alert" -> IF f.blockTrade THEN returned ELSE toStrategy
          [] f.pc = "strategy" ->
               IF f.strategy = NoDecision \/ f.strategy.action = "HOLD" THEN returned
               ELSE LET v == validateWithRiskManagement(a, f.strategy, f.marketData, now)
                    IN  [a |-> v.a,
                         f |-> [f EXCEPT !.pc = IF v.threw THEN "thrown" ELSE "validate",
                                         !.gates = @ \o v.gates,
                                         !.validated = v.decision,
                                         !.logged = @ + Len(v.a.auditLogger.entries)
                                                      - Len(a.auditLogger.entries)]]
          [] f.pc = "validate" ->
               IF f.validated = NoDecision THEN returned
               \* the payload of TRADE_DECISION holds the bigint amount
               ELSE flightLog(a, f, "TRADE_DECISION", TRUE, now, "approved")
          [] f.pc = "thrown" -> flightLog(a, f, "ERROR", FALSE, now, "error")
          [] f.pc = "log" ->
               [a |-> a,
                f |-> [f EXCEPT !.pc = "done",
                                !.decision = IF f.exit = "approved" THEN f.validated
                                             ELSE NoDecision]]

\* getStatus (lines 433-447): the agent after the call and the drawdown status
\* returned.
BaseAgent_getStatus(a, now, now2) ==
    LET drawdown == DrawdownProtector_updateValue(a.drawdownProtector,
                                                  a.portfolio.totalValue, now, now2)
    IN  [a |-> [a EXCEPT !.drawdownProtector = drawdown.p],
         running |-> a.isRunning, drawdown |-> drawdown.status,
         canTrade |-> drawdown.canTrade]

-----------------------------------------------------------------------------
(* Initial states *)

\* Each specification below exercises one object; the objects it leaves alone
\* stay as constructed from the first configuration of the test suite.
TestStopLossParams ==
    [entryPrice |-> 1000, stopLossPercent |-> 500, takeProfitPercent |-> 1500,
     trailingStopPercent |-> 1000]

TestDrawdownConfig ==
    [maxDailyDrawdownPercent |-> 300, maxTotalDrawdownPercent |-> 1000,
     cooldownPeriodMs |-> 3600000, pauseOnTrigger |-> TRUE]

IdleSL ==
    /\ manager = StopLossManager_new(TestStopLossParams)
    /\ slCalls = <<>>

IdleDD ==
    /\ protector = DrawdownProtector_new(TestDrawdownConfig, InitialValue, StartTime)
    /\ ddCalls = <<>>

NoAuditCall == [op |-> "none", entry |-> <<>>, of |-> 0, outcome |-> "none"]

NoVerdict == [called |-> FALSE, threw |-> FALSE, valid |-> FALSE, invalidCount |-> 0,
              issues |-> <<>>]

IdleSizing ==
    sizing = [params |-> CHOOSE params \in KellyParams : TRUE, called |-> FALSE,
              threw |-> FALSE, returned |-> <<>>]

IdleAudit ==
    /\ ledger = AuditLogger_new
    /\ audit = NoAuditCall

IdleTrail == trail = [entries |-> <<>>, result |-> NoVerdict]

NoWhaleCall == [amount |-> 0, liquidity |-> 0, alert |-> NoAlert, alerts |-> <<>>]

IdleWhale ==
    /\ whale = WhaleDetector_new(WhaleThreshold)
    /\ whaleCall = NoWhaleCall

NoWashCall == [trades |-> <<>>, alert |-> NoWashAlert, handed |-> 0]

IdleWash ==
    /\ wash = WashTradingDetector_new(3, WashWindowMs)
    /\ washCall = NoWashCall

NoOracleCall == [called |-> FALSE, healthy |-> FALSE, issues |-> {}]

IdleOracle ==
    /\ oracle = OracleMonitor_new(TestSources)
    /\ oracleCall = NoOracleCall

NoSandwichCall == [userOrder |-> <<>>, safe |-> FALSE, warning |-> "undefined",
                   recommendedSlippage |-> Undefined]

IdleSandwich ==
    /\ sandwich = SandwichProtector_new(100)
    /\ sandwichCall = NoSandwichCall

IdleBalancer ==
    balancerCall = [targetAllocations |-> EmptyMap, rebalanceThreshold |-> 500,
                    called |-> FALSE, threw |-> FALSE]

IdleFixed ==
    fixedCall = [bankroll |-> 0, fraction |-> 0, maxPosition |-> Undefined,
                 called |-> FALSE, returned |-> 0]

NoGuardCall == [address |-> "", wasBlocked |-> FALSE, allowed |-> FALSE,
                reason |-> "undefined", lookups |-> <<>>, blockedFor |-> {}]

IdleGuard ==
    /\ guard = ReputationGuard_new(30)
    /\ guardCall = NoGuardCall

IdleDet == IdleWash /\ IdleOracle /\ IdleSandwich /\ IdleBalancer /\ IdleFixed /\ IdleGuard

ConservativeConfig == CHOOSE c \in AgentConfigs : c.name = "ConservativeBot"

NoConstruction ==
    [config |-> ConservativeConfig, rebalanceThreshold |-> 200, balance |-> InitialValue,
     called |-> FALSE, threw |-> FALSE, agent |-> <<>>]

NoRetry == [pc |-> "none", maxRetries |-> 0, delayMs |-> 0, i |-> 0, invoked |-> 0,
            outcomes |-> <<>>, waits |-> <<>>, lastError |-> "undefined",
            result |-> "undefined", thrown |-> "undefined"]
NoLimiter == [requestsPerSecond |-> 10, queue |-> <<>>, processing |-> FALSE,
              lastRequestTime |-> 0, calls |-> 0, loops |-> <<>>, started |-> <<>>]

IdleRun ==
    /\ flight = NoFlight
    /\ construction = NoConstruction
    /\ retryRun = NoRetry
    /\ limiter = NoLimiter

IdleLib == IdleSizing /\ IdleAudit /\ IdleTrail /\ IdleWhale /\ IdleDet /\ IdleRun


NoOps == [position |-> 0, ticks |-> 0]

NoCall == [exit |-> "none", gates |-> <<>>, decision |-> NoDecision, logged |-> 0]

IdleAgent ==
    /\ agent = BaseAgent_new(ConservativeConfig, InitialValue, StartTime)
    /\ pmdLast = NoCall
    /\ agentOps = NoOps

InitSL ==
    /\ \E params \in StopLossConfigs : manager = StopLossManager_new(params)
    /\ slCalls = <<>>
    /\ IdleDD
    /\ IdleAgent
    /\ IdleLib
    /\ clock = StartTime
    /\ lastOp = "new"

InitDD ==
    /\ \E config \in DrawdownConfigs :
          protector = DrawdownProtector_new(config, InitialValue, StartTime)
    /\ ddCalls = <<>>
    /\ IdleSL
    /\ IdleAgent
    /\ IdleLib
    /\ clock = StartTime
    /\ lastOp = "new"

InitAgent ==
    /\ \E config \in AgentConfigs :
          agent = BaseAgent_new(config, InitialValue, StartTime)
    /\ pmdLast = NoCall
    /\ agentOps = NoOps
    /\ IdleSL
    /\ IdleDD
    /\ IdleLib
    /\ clock = StartTime
    /\ lastOp = "new"

-----------------------------------------------------------------------------
(* Operations on a StopLossManager *)

SL_updatePrice ==
    /\ Len(slCalls) < MaxSLCalls
    /\ \E currentPrice \in Prices :
          LET r == StopLossManager_updatePrice(manager, currentPrice)
          IN  /\ manager' = r.m
              /\ slCalls' = Append(slCalls, [price |-> currentPrice,
                                             shouldExit |-> r.shouldExit,
                                             reason |-> r.reason,
                                             active |-> r.active])
    /\ lastOp' = "updatePrice"
    /\ UNCHANGED <<ddVars, agentVars, clock, libVars>>

SL_deactivate ==
    /\ manager.isActive
    /\ manager' = StopLossManager_deactivate(manager)
    /\ lastOp' = "deactivate"
    /\ UNCHANGED <<slCalls, ddVars, agentVars, clock, libVars>>

NextSL == SL_updatePrice \/ SL_deactivate

SpecSL == InitSL /\ [][NextSL]_vars

-----------------------------------------------------------------------------
(* Operations on a DrawdownProtector *)

DD_updateValue ==
    /\ Len(ddCalls) < MaxDDCalls
    /\ \E currentValue \in Equities, dt \in Elapsed, d \in IntraCall :
          LET now == clock + dt
              now2 == now + d
              r == DrawdownProtector_updateValue(protector, currentValue, now, now2)
              \* Date.now() is read a second time only by triggerCooldown
              last == IF r.status = "CRITICAL" THEN now2 ELSE now
          IN  /\ protector' = r.p
              /\ ddCalls' = Append(ddCalls, [value |-> currentValue, now |-> now,
                                             last |-> last,
                                             canTrade |-> r.canTrade,
                                             status |-> r.status])
              /\ clock' = last
    /\ lastOp' = "updateValue"
    /\ UNCHANGED <<slVars, agentVars, libVars>>

DD_resetPeak ==
    /\ lastOp # "resetPeak"
    /\ protector' = DrawdownProtector_resetPeak(protector)
    /\ lastOp' = "resetPeak"
    /\ UNCHANGED <<ddCalls, slVars, agentVars, clock, libVars>>

\* getState returns a copy of the state and changes nothing.
DD_getState ==
    /\ lastOp # "getState"
    /\ lastOp' = "getState"
    /\ UNCHANGED <<protector, ddCalls, slVars, agentVars, clock, libVars>>

NextDD == DD_updateValue \/ DD_resetPeak \/ DD_getState

SpecDD == InitDD /\ [][NextDD]_vars

-----------------------------------------------------------------------------
(* Operations on a BaseAgent.  The oracle monitor is fed and              *)
(* updatePosition is called by the code that embeds the agent (its         *)
(* subclass and its run script).  The calls follow one another at once:    *)
(* the clock moves only by the second read of Date.now() inside            *)
(* updateValue; what the passing of time does to the drawdown guard is     *)
(* examined under SpecDD.                                                  *)

A_start ==
    /\ ~agent.isRunning
    /\ agent' = BaseAgent_start(agent, clock)
    /\ UNCHANGED <<pmdLast, agentOps, slVars, ddVars, clock, lastOp, libVars>>

A_stop ==
    /\ agent.isRunning
    /\ agent' = BaseAgent_stop(agent, clock)
    /\ UNCHANGED <<pmdLast, agentOps, slVars, ddVars, clock, lastOp, libVars>>

\* The reports are finitely many and carry no fresh data, so the monitor has
\* finitely many states without a bound on the number of updates.
A_oracleUpdatePrice ==
    /\ \E report \in OracleReports :
          agent' = [agent EXCEPT !.oracleMonitor =
                       OracleMonitor_updatePrice(@, report[1], report[2],
                                                 clock - report[3], clock)]
    /\ UNCHANGED <<pmdLast, agentOps, slVars, ddVars, clock, lastOp, libVars>>

A_updatePosition ==
    /\ agentOps.position < MaxPositionUpdates
    /\ \E marketId \in Markets, amount \in TradeAmounts, price \in MarketPrices,
          isBuy \in BOOLEAN :
          agent' = BaseAgent_updatePosition(agent, marketId, amount, price, isBuy, clock)
    /\ agentOps' = [agentOps EXCEPT !.position = @ + 1]
    /\ UNCHANGED <<pmdLast, slVars, ddVars, clock, lastOp, libVars>>

A_processMarketData ==
    /\ agentOps.ticks < MaxTicks
    /\ \E marketId \in Markets, snapshot \in Snapshots, d \in IntraCall :
          \E decision \in Decisions(marketId) :
             LET now == clock
                 marketData == [marketId |-> marketId, currentPrice |-> snapshot[1],
                                liquidity |-> snapshot[2]]
             IN  \E r \in {BaseAgent_processMarketData(agent, marketData, decision,
                                                       now, now + d)} :
                    /\ agent' = r.a
                    /\ pmdLast' =
                           [exit |-> r.exit, gates |-> r.gates, decision |-> r.decision,
                            logged |-> Len(r.a.auditLogger.entries)
                                           - Len(agent.auditLogger.entries)]
                    \* Date.now() is read a second time only by triggerCooldown
                    /\ clock' = IF r.a.drawdownProtector.state.triggeredCount
                                      > agent.drawdownProtector.state.triggeredCount
                                THEN now + d ELSE now
    /\ agentOps' = [agentOps EXCEPT !.ticks = @ + 1]
    /\ UNCHANGED <<slVars, ddVars, lastOp, libVars>>

NextAgent ==
    \/ A_start
    \/ A_stop
    \/ A_oracleUpdatePrice
    \/ A_updatePosition
    \/ A_processMarketData

SpecAgent == InitAgent /\ [][NextAgent]_vars

-----------------------------------------------------------------------------
(* calculateKellyCriterion applied to one set of parameters *)

InitKelly ==
    /\ \E params \in KellyParams :
          sizing = [params |-> params, called |-> FALSE, threw |-> FALSE,
                    returned |-> <<>>]
    /\ IdleSL
    /\ IdleDD
    /\ IdleAgent
    /\ IdleAudit
    /\ IdleRun
    /\ IdleTrail
    /\ IdleWhale
    /\ IdleDet
    /\ clock = StartTime
    /\ lastOp = "new"

K_calculate ==
    /\ ~sizing.called
    /\ LET r == Kelly_call(sizing.params)
       IN  sizing' = [sizing EXCEPT !.called = TRUE, !.threw = r.threw,
                                    !.returned = r.returned]
    /\ UNCHANGED <<runVars, slVars, ddVars, agentVars, auditVars, trail, whaleVars, detVars,
                   clock, lastOp>>

NextKelly == K_calculate

SpecKelly == InitKelly /\ [][NextKelly]_vars

-----------------------------------------------------------------------------
(* Operations on an AuditLogger *)

InitAudit ==
    /\ IdleAudit
    /\ IdleSL
    /\ IdleDD
    /\ IdleAgent
    /\ IdleSizing
    /\ IdleRun
    /\ IdleTrail
    /\ IdleWhale
    /\ IdleDet
    /\ clock = StartTime
    /\ lastOp = "new"

AL_log ==
    /\ Len(ledger.entries) < MaxEntries
    /\ \E data \in Payloads, timestamp \in LogTimestamps :
          LET r == AuditLogger_log(ledger,
                                   [type |-> "TRADE", agent |-> "bot", data |-> data,
                                    timestamp |-> timestamp],
                                   clock)
          IN  /\ ledger' = r.logger
              /\ audit' = [op |-> "log", entry |-> r.returned, of |-> Len(r.logger.entries),
                           outcome |-> IF r.threw THEN "throws" ELSE "returned"]
    /\ UNCHANGED <<runVars, slVars, ddVars, agentVars, sizing, trail, whaleVars, detVars, clock,
                   lastOp>>

\* verifyEntry on a recorded entry, or on a copy of it with another payload.
AL_verifyEntry ==
    /\ \E i \in 1..Len(ledger.entries), data \in Payloads :
          LET entry == [ledger.entries[i] EXCEPT !.data = data]
          IN  audit' = [op |-> "verifyEntry", entry |-> <<entry>>, of |-> i,
                        outcome |-> AuditLogger_verifyEntry(entry)]
    /\ UNCHANGED <<ledger, runVars, slVars, ddVars, agentVars, sizing, trail, whaleVars, detVars, clock,
                   lastOp>>

AL_getMerkleRoot ==
    /\ audit.op # "getMerkleRoot"
    /\ audit' = [op |-> "getMerkleRoot", entry |-> <<AuditLogger_getMerkleRoot(ledger)>>,
                 of |-> 0, outcome |-> "returned"]
    /\ UNCHANGED <<ledger, runVars, slVars, ddVars, agentVars, sizing, trail, whaleVars, detVars, clock,
                   lastOp>>

AL_getEntries ==
    /\ \E filter \in EntryFilters :
          audit' = [op |-> "getEntries", entry |-> AuditLogger_getEntries(ledger, filter),
                    of |-> 0, outcome |-> "returned"]
    /\ UNCHANGED <<ledger, runVars, slVars, ddVars, agentVars, sizing, trail, whaleVars,
                   detVars, clock, lastOp>>

AL_exportToJson ==
    /\ audit' = [op |-> "exportToJson", entry |-> <<AuditLogger_exportToJson(ledger)>>,
                 of |-> 0, outcome |-> "returned"]
    /\ UNCHANGED <<ledger, runVars, slVars, ddVars, agentVars, sizing, trail, whaleVars,
                   detVars, clock, lastOp>>

NextAudit ==
    \/ AL_log
    \/ AL_verifyEntry
    \/ AL_getMerkleRoot
    \/ AL_getEntries
    \/ AL_exportToJson

SpecAudit == InitAudit /\ [][NextAudit]_vars

-----------------------------------------------------------------------------
(* AuditVerifier.verifyTrail applied to one array of entries *)

RECURSIVE Arrays(_)
Arrays(n) ==
    IF n = 0 THEN {<<>>}
    ELSE Arrays(n - 1) \cup {Append(t, e) : t \in Arrays(n - 1), e \in TrailEntries}

InitTrail ==
    /\ \E entries \in Arrays(MaxTrail) : trail = [entries |-> entries, result |-> NoVerdict]
    /\ IdleSL
    /\ IdleDD
    /\ IdleAgent
    /\ IdleSizing
    /\ IdleRun
    /\ IdleAudit
    /\ IdleWhale
    /\ IdleDet
    /\ clock = StartTime
    /\ lastOp = "new"

T_verifyTrail ==
    /\ ~trail.result.called
    /\ LET r == AuditVerifier_verifyTrail(trail.entries)
       IN  trail' = [trail EXCEPT !.result =
                        [called |-> TRUE, threw |-> r.threw, valid |-> r.valid,
                         invalidCount |-> r.invalidCount, issues |-> r.issues]]
    /\ UNCHANGED <<runVars, slVars, ddVars, agentVars, sizing, auditVars, whaleVars, detVars,
                   clock, lastOp>>

NextTrail == T_verifyTrail

SpecTrail == InitTrail /\ [][NextTrail]_vars

-----------------------------------------------------------------------------
(* Operations on a WhaleDetector *)

InitWhale ==
    /\ IdleWhale
    /\ IdleSL
    /\ IdleDD
    /\ IdleAgent
    /\ IdleSizing
    /\ IdleRun
    /\ IdleAudit
    /\ IdleTrail
    /\ IdleDet
    /\ clock = StartTime
    /\ lastOp = "new"

W_updateVolume ==
    /\ \E marketId \in Markets, volume \in Volumes :
          whale' = WhaleDetector_updateVolume(whale, marketId, volume)
    /\ UNCHANGED <<whaleCall, runVars, slVars, ddVars, agentVars, sizing, auditVars, trail, detVars, clock,
                   lastOp>>

W_analyzeOrder ==
    /\ \A m \in DOMAIN whale.orderHistory : Len(whale.orderHistory[m]) < MaxOrders
    /\ \E marketId \in Markets, amount \in OrderAmounts, price \in MarketPrices,
          liquidity \in Liquidities :
          LET order == [marketId |-> marketId, amount |-> amount, price |-> price,
                        timestamp |-> clock]
              r == WhaleDetector_analyzeOrder(whale, order, liquidity, clock)
          IN  /\ whale' = r.w
              /\ whaleCall' = [amount |-> amount, liquidity |-> liquidity,
                               alert |-> r.alert, alerts |-> r.alerts]
    /\ UNCHANGED <<runVars, slVars, ddVars, agentVars, sizing, auditVars, trail, detVars, clock,
                   lastOp>>

NextWhale == W_updateVolume \/ W_analyzeOrder

SpecWhale == InitWhale /\ [][NextWhale]_vars

-----------------------------------------------------------------------------
(* Operations on a WashTradingDetector.  The detector starts empty with a   *)
(* minTradeCount of 2 or 3, or as a detector of minTradeCount 3 that has    *)
(* been handed nine alternating trades of one pair in one market.           *)

InitWash ==
    /\ \/ \E minTradeCount \in MinTradeCounts :
             wash = WashTradingDetector_new(minTradeCount, WashWindowMs)
       \/ wash = [WashTradingDetector_new(3, WashWindowMs) EXCEPT
                     !.tradeHistory = MapSet(EmptyMap, "M1", BusyHistory(StartTime)),
                     !.marketKeys = <<"M1">>]
    /\ washCall = NoWashCall
    /\ IdleSL
    /\ IdleDD
    /\ IdleAgent
    /\ IdleSizing
    /\ IdleRun
    /\ IdleAudit
    /\ IdleTrail
    /\ IdleWhale
    /\ IdleOracle
    /\ IdleSandwich
    /\ IdleBalancer
    /\ IdleFixed
    /\ IdleGuard
    /\ clock = StartTime
    /\ lastOp = "new"

WT_analyzeTrades ==
    /\ \E trades \in TradeArrays(clock) :
          /\ washCall.handed + Len(trades) <= MaxTrades
          /\ \E r \in {WashTradingDetector_analyzeTrades(wash, trades, clock)} :
                /\ wash' = r.d
                /\ washCall' = [trades |-> trades, alert |-> r.alert,
                                handed |-> washCall.handed + Len(trades)]
    /\ UNCHANGED <<runVars, slVars, ddVars, agentVars, sizing, auditVars, trail, whaleVars,
                   oracleVars, sandwichVars, balancerCall, fixedCall, guardVars, clock,
                   lastOp>>

NextWash == WT_analyzeTrades

SpecWash == InitWash /\ [][NextWash]_vars

-----------------------------------------------------------------------------
(* Operations on an OracleMonitor, and the passing of time between them *)

InitOracle ==
    /\ IdleOracle
    /\ IdleSL
    /\ IdleDD
    /\ IdleAgent
    /\ IdleSizing
    /\ IdleRun
    /\ IdleAudit
    /\ IdleTrail
    /\ IdleWhale
    /\ IdleWash
    /\ IdleSandwich
    /\ IdleBalancer
    /\ IdleFixed
    /\ IdleGuard
    /\ clock = StartTime
    /\ lastOp = "new"

O_updatePrice ==
    /\ \E feed \in Feeds :
          oracle' = OracleMonitor_updatePrice(oracle, feed[1], feed[2], clock - feed[3],
                                              clock)
    /\ lastOp' = "updatePrice"
    /\ UNCHANGED <<oracleCall, runVars, slVars, ddVars, agentVars, sizing, auditVars, trail,
                   whaleVars, washVars, sandwichVars, balancerCall, fixedCall, guardVars,
                   clock>>

O_checkHealth ==
    /\ \E r \in {OracleMonitor_checkHealth(oracle)} :
          oracleCall' = [called |-> TRUE, healthy |-> r.healthy, issues |-> r.issues]
    /\ lastOp' = "checkHealth"
    /\ UNCHANGED <<oracle, runVars, slVars, ddVars, agentVars, sizing, auditVars, trail, whaleVars,
                   washVars, sandwichVars, balancerCall, fixedCall, guardVars, clock>>

O_elapse ==
    /\ clock < StartTime + MaxAdvances * FeedAgeMs
    /\ clock' = clock + FeedAgeMs
    /\ lastOp' = "elapse"
    /\ UNCHANGED <<oracleVars, runVars, slVars, ddVars, agentVars, sizing, auditVars, trail,
                   whaleVars, washVars, sandwichVars, balancerCall, fixedCall, guardVars>>

NextOracle == O_updatePrice \/ O_checkHealth \/ O_elapse

SpecOracle == InitOracle /\ [][NextOracle]_vars

-----------------------------------------------------------------------------
(* Operations on a SandwichProtector.  Transaction hashes are numbered. *)

InitSandwich ==
    /\ \E maxSlippagePercent \in SlippageLimits :
          sandwich = SandwichProtector_new(maxSlippagePercent)
    /\ sandwichCall = NoSandwichCall
    /\ IdleSL
    /\ IdleDD
    /\ IdleAgent
    /\ IdleSizing
    /\ IdleRun
    /\ IdleAudit
    /\ IdleTrail
    /\ IdleWhale
    /\ IdleWash
    /\ IdleOracle
    /\ IdleBalancer
    /\ IdleFixed
    /\ IdleGuard
    /\ clock = StartTime
    /\ lastOp = "new"

SP_addPendingTx ==
    /\ \E txHash \in 1..MaxPending, order \in PendingOrders(clock) :
          sandwich' = SandwichProtector_addPendingTx(sandwich, txHash, order)
    /\ lastOp' = "addPendingTx"
    /\ UNCHANGED <<sandwichCall, runVars, slVars, ddVars, agentVars, sizing, auditVars, trail,
                   whaleVars, washVars, oracleVars, balancerCall, fixedCall, guardVars,
                   clock>>

SP_removePendingTx ==
    /\ \E txHash \in 1..MaxPending :
          sandwich' = SandwichProtector_removePendingTx(sandwich, txHash)
    /\ lastOp' = "removePendingTx"
    /\ UNCHANGED <<sandwichCall, runVars, slVars, ddVars, agentVars, sizing, auditVars, trail,
                   whaleVars, washVars, oracleVars, balancerCall, fixedCall, guardVars,
                   clock>>

SP_preTradeCheck ==
    /\ \E userOrder \in UserOrders(clock) :
          \E r \in {SandwichProtector_preTradeCheck(sandwich, userOrder)} :
              sandwichCall' = [userOrder |-> userOrder, safe |-> r.safe,
                               warning |-> r.warning,
                               recommendedSlippage |-> r.recommendedSlippage]
    /\ lastOp' = "preTradeCheck"
    /\ UNCHANGED <<sandwich, runVars, slVars, ddVars, agentVars, sizing, auditVars, trail,
                   whaleVars, washVars, oracleVars, balancerCall, fixedCall, guardVars,
                   clock>>

NextSandwich == SP_addPendingTx \/ SP_removePendingTx \/ SP_preTradeCheck

SpecSandwich == InitSandwich /\ [][NextSandwich]_vars

-----------------------------------------------------------------------------
(* The construction of one PortfolioBalancer *)

InitBalancer ==
    /\ \E targetAllocations \in TargetAllocations,
          rebalanceThreshold \in RebalanceThresholds :
          balancerCall = [targetAllocations |-> targetAllocations,
                          rebalanceThreshold |-> rebalanceThreshold,
                          called |-> FALSE, threw |-> FALSE]
    /\ IdleSL
    /\ IdleDD
    /\ IdleAgent
    /\ IdleSizing
    /\ IdleRun
    /\ IdleAudit
    /\ IdleTrail
    /\ IdleWhale
    /\ IdleWash
    /\ IdleOracle
    /\ IdleSandwich
    /\ IdleFixed
    /\ IdleGuard
    /\ clock = StartTime
    /\ lastOp = "new"

PB_new ==
    /\ ~balancerCall.called
    /\ \E r \in {PortfolioBalancer_new(balancerCall.targetAllocations,
                                       balancerCall.rebalanceThreshold)} :
          balancerCall' = [balancerCall EXCEPT !.called = TRUE, !.threw = r.threw]
    /\ UNCHANGED <<runVars, slVars, ddVars, agentVars, sizing, auditVars, trail, whaleVars,
                   washVars, oracleVars, sandwichVars, fixedCall, guardVars, clock, lastOp>>

NextBalancer == PB_new

SpecBalancer == InitBalancer /\ [][NextBalancer]_vars

-----------------------------------------------------------------------------
(* calculateFixedFractional applied to one set of arguments *)

InitFixed ==
    /\ \E bankroll \in FixedBankrolls, fraction \in FixedFractions,
          maxPosition \in MaxPositions :
          fixedCall = [bankroll |-> bankroll, fraction |-> fraction,
                       maxPosition |-> maxPosition, called |-> FALSE, returned |-> 0]
    /\ IdleSL
    /\ IdleDD
    /\ IdleAgent
    /\ IdleSizing
    /\ IdleRun
    /\ IdleAudit
    /\ IdleTrail
    /\ IdleWhale
    /\ IdleWash
    /\ IdleOracle
    /\ IdleSandwich
    /\ IdleBalancer
    /\ IdleGuard
    /\ clock = StartTime
    /\ lastOp = "new"

FF_calculate ==
    /\ ~fixedCall.called
    /\ fixedCall' = [fixedCall EXCEPT
                        !.called = TRUE,
                        !.returned = calculateFixedFractional(fixedCall.bankroll,
                                                              fixedCall.fraction,
                                                              fixedCall.maxPosition)]
    /\ UNCHANGED <<runVars, slVars, ddVars, agentVars, sizing, auditVars, trail, whaleVars,
                   washVars, oracleVars, sandwichVars, balancerCall, guardVars, clock,
                   lastOp>>

NextFixed == FF_calculate

SpecFixed == InitFixed /\ [][NextFixed]_vars

-----------------------------------------------------------------------------
(* Operations on a ReputationGuard, and the passing of time that lets its   *)
(* client's cache expire                                                    *)

InitGuard ==
    /\ \E minReputationScore \in MinReputationScores :
          guard = ReputationGuard_new(minReputationScore)
    /\ guardCall = NoGuardCall
    /\ IdleSL
    /\ IdleDD
    /\ IdleAgent
    /\ IdleSizing
    /\ IdleRun
    /\ IdleAudit
    /\ IdleTrail
    /\ IdleWhale
    /\ IdleWash
    /\ IdleOracle
    /\ IdleSandwich
    /\ IdleBalancer
    /\ IdleFixed
    /\ clock = StartTime
    /\ lastOp = "new"

RG_canInteract ==
    /\ \E address \in GuardAddresses, first \in FetchOutcomes, second \in FetchOutcomes :
          \E r \in {ReputationGuard_canInteract(guard, address, clock, <<first, second>>)} :
              /\ guard' = r.g
              /\ guardCall' = [address |-> address,
                               wasBlocked |-> toLowerCase(address) \in guardCall.blockedFor,
                               allowed |-> r.allowed, reason |-> r.reason,
                               lookups |-> r.lookups,
                               blockedFor |->
                                   IF r.reason = "Critical flags"
                                   THEN guardCall.blockedFor \cup {toLowerCase(address)}
                                   ELSE guardCall.blockedFor]
    /\ lastOp' = "canInteract"
    /\ UNCHANGED <<runVars, slVars, ddVars, agentVars, sizing, auditVars, trail, whaleVars,
                   washVars, oracleVars, sandwichVars, balancerCall, fixedCall, clock>>

RG_blockAddress ==
    /\ \E address \in BlockAddresses :
          /\ guard' = ReputationGuard_blockAddress(guard, address)
          /\ guardCall' = [guardCall EXCEPT !.blockedFor = @ \cup {toLowerCase(address)}]
    /\ lastOp' = "blockAddress"
    /\ UNCHANGED <<runVars, slVars, ddVars, agentVars, sizing, auditVars, trail,
                   whaleVars, washVars, oracleVars, sandwichVars, balancerCall, fixedCall,
                   clock>>

RG_unblockAddress ==
    /\ \E address \in BlockAddresses :
          /\ guard' = ReputationGuard_unblockAddress(guard, address)
          /\ guardCall' = [guardCall EXCEPT !.blockedFor = @ \ {toLowerCase(address)}]
    /\ lastOp' = "unblockAddress"
    /\ UNCHANGED <<runVars, slVars, ddVars, agentVars, sizing, auditVars, trail,
                   whaleVars, washVars, oracleVars, sandwichVars, balancerCall, fixedCall,
                   clock>>

RG_elapse ==
    /\ clock < StartTime + MaxAdvances * CacheTtlMs
    /\ clock' = clock + CacheTtlMs
    /\ lastOp' = "elapse"
    /\ UNCHANGED <<guardVars, runVars, slVars, ddVars, agentVars, sizing, auditVars, trail,
                   whaleVars, washVars, oracleVars, sandwichVars, balancerCall, fixedCall>>

NextGuard == RG_canInteract \/ RG_blockAddress \/ RG_unblockAddress \/ RG_elapse

SpecGuard == InitGuard /\ [][NextGuard]_vars

-----------------------------------------------------------------------------
(* retry, src/src/utils/helpers.ts:112-131, as the event loop runs it.  A   *)
(* call is suspended at one of its two awaits:                              *)
(*   "calling"   await fn()        (line 122), fn has been invoked          *)
(*   "sleeping"  await sleep(...)  (line 127)                               *)
(* and ends "returned" or "thrown".  invoked counts the invocations of fn,  *)
(* outcomes and waits list how each invocation settled and the argument of  *)
(* each sleep; they are observations of the call, i and lastError are the   *)
(* variables of the function.                                               *)

\* Mutant of waitMs: every wait is delayMs.
waitMs_Constant(delayMs, i) == delayMs

\* Line 125.
waitMs(delayMs, i) == delayMs * 2^i

\* The top of the loop (line 120) for the value i has: fn is invoked, or the
\* loop is over and lastError is thrown (line 131).
retry_loop(r, i) ==
    IF i < r.maxRetries
    THEN [r EXCEPT !.pc = "calling", !.i = i, !.invoked = @ + 1]
    ELSE [r EXCEPT !.pc = "thrown", !.i = i, !.thrown = r.lastError]

\* The call up to its first await (lines 117-122).
retry_call(maxRetries, delayMs) ==
    retry_loop([NoRetry EXCEPT !.maxRetries = maxRetries, !.delayMs = delayMs], 0)

\* The promise of fn settles (lines 122-127): return its value, or keep the
\* error and sleep.
retry_settled(r, outcome) ==
    IF outcome.ok
    THEN [r EXCEPT !.pc = "returned", !.result = outcome.value,
                   !.outcomes = Append(@, outcome)]
    ELSE [r EXCEPT !.pc = "sleeping", !.lastError = outcome.value,
                   !.outcomes = Append(@, outcome),
                   !.waits = Append(@, waitMs(r.delayMs, r.i))]

\* The sleep is over (line 127, then i++ at line 120).
retry_woken(r) == retry_loop(r, r.i + 1)

\* Inputs: maxRetries from none to MaxRetries, delays of nothing, the default
\* second and another, and what an invocation of fn may come to
RetryCounts == 0..MaxRetries
RetryDelays == {0, 100, 1000}
FnOutcomes == {[ok |-> TRUE, value |-> "v1"], [ok |-> TRUE, value |-> "v2"],
               [ok |-> FALSE, value |-> "e1"], [ok |-> FALSE, value |-> "e2"]}

InitRetry ==
    /\ retryRun = NoRetry
    /\ flight = NoFlight
    /\ construction = NoConstruction
    /\ limiter = NoLimiter
    /\ IdleSL
    /\ IdleDD
    /\ IdleAgent
    /\ IdleSizing
    /\ IdleAudit
    /\ IdleTrail
    /\ IdleWhale
    /\ IdleDet
    /\ clock = StartTime
    /\ lastOp = "new"

RT_call ==
    /\ retryRun.pc = "none"
    /\ \E maxRetries \in RetryCounts, delayMs \in RetryDelays :
          retryRun' = retry_call(maxRetries, delayMs)
    /\ UNCHANGED <<flight, construction, limiter, slVars, ddVars, agentVars, sizing,
                   auditVars, trail, whaleVars, detVars, clock, lastOp>>

RT_settle ==
    /\ retryRun.pc = "calling"
    /\ \E outcome \in FnOutcomes : retryRun' = retry_settled(retryRun, outcome)
    /\ UNCHANGED <<flight, construction, limiter, slVars, ddVars, agentVars, sizing,
                   auditVars, trail, whaleVars, detVars, clock, lastOp>>

RT_wake ==
    /\ retryRun.pc = "sleeping"
    /\ retryRun' = retry_woken(retryRun)
    /\ UNCHANGED <<flight, construction, limiter, slVars, ddVars, agentVars, sizing,
                   auditVars, trail, whaleVars, detVars, clock, lastOp>>

NextRetry == RT_call \/ RT_settle \/ RT_wake

SpecRetry == InitRetry /\ [][NextRetry]_vars

\* The promise of fn settles and the timer of sleep fires: the event loop
\* runs a continuation that is ready.
SpecRetryFair == SpecRetry /\ WF_vars(RT_settle) /\ WF_vars(RT_wake)

-----------------------------------------------------------------------------
(* RateLimiter, src/src/utils/helpers.ts:136-183, as the event loop runs    *)
(* it.  queue, processing, lastRequestTime and requestsPerSecond are the    *)
(* fields of the object; a queued function is named by the number of the    *)
(* throttle call that queued it.  calls, loops and started are              *)
(* observations: the throttle calls made, for each of them what came of the *)
(* processQueue call it made, and the queued functions in the order they    *)
(* were started.  A processQueue call is                                    *)
(*   "returned"  it returned at line 162                                    *)
(*   "sleeping"  suspended at await sleep(...) (line 173), to be woken at   *)
(*               wake                                                       *)
(*   "looping"   a queued function has been started by fn() (line 179) and  *)
(*               has not handed control back yet: what it runs up to its    *)
(*               first await may call throttle                              *)
(*   "ended"     the loop is over and processing has been reset (182).      *)

\* Mutant of busy: processQueue looks at the queue only.
busy_QueueOnly(l) == Len(l.queue) = 0

\* Line 162.
busy(l) == l.processing \/ Len(l.queue) = 0

RateLimiter_new(requestsPerSecond) ==
    [NoLimiter EXCEPT !.requestsPerSecond = requestsPerSecond]

\* Line 169, for the rates of RequestRates, which all divide 1000
minInterval(l) == 1000 \div l.requestsPerSecond

\* Lines 176-180 in the processQueue call of throttle call k.
RateLimiter_shift(l, k, now) ==
    IF Len(l.queue) = 0
    THEN [l EXCEPT !.loops[k].pc = "looping"]
    ELSE [l EXCEPT !.queue = Tail(@), !.lastRequestTime = now,
                   !.started = Append(@, Head(l.queue)), !.loops[k].pc = "looping"]

\* One turn of the while loop from its test (lines 166-180), or the end of
\* the loop (182).
RateLimiter_iterate(l, k, now) ==
    IF Len(l.queue) = 0
    THEN [l EXCEPT !.processing = FALSE, !.loops[k].pc = "ended"]
    ELSE LET timeSinceLastRequest == now - l.lastRequestTime
         IN  IF timeSinceLastRequest < minInterval(l)
             THEN [l EXCEPT !.loops[k] =
                       [pc |-> "sleeping",
                        wake |-> now + (minInterval(l) - timeSinceLastRequest)]]
             ELSE RateLimiter_shift(l, k, now)

\* processQueue as throttle call k calls it (lines 161-166).
RateLimiter_processQueue(l, k, now) ==
    IF busy(l)
    THEN l
    ELSE RateLimiter_iterate([l EXCEPT !.processing = TRUE], k, now)

\* throttle (lines 146-159): the function is queued and processQueue called.
RateLimiter_throttle(l, now) ==
    LET k == l.calls + 1
    IN  RateLimiter_processQueue(
            [l EXCEPT !.calls = k, !.queue = Append(@, k),
                      !.loops = Append(@, [pc |-> "returned", wake |-> 0])],
            k, now)

\* The processQueue calls that have neither returned nor ended
ActiveLoops(l) == {k \in 1..Len(l.loops) : l.loops[k].pc \in {"sleeping", "looping"}}
Looping(l) == \E k \in 1..Len(l.loops) : l.loops[k].pc = "looping"

\* Inputs: the default rate and one request a second; the time between a
\* throttle call and the call or wake-up before it; how late a timer fires
RequestRates == {1, 10}
ThrottleGaps == {0, 50, 1000}
TimerLateness == {0, 5}

InitLimiter ==
    /\ \E requestsPerSecond \in RequestRates : limiter = RateLimiter_new(requestsPerSecond)
    /\ flight = NoFlight
    /\ construction = NoConstruction
    /\ retryRun = NoRetry
    /\ IdleSL
    /\ IdleDD
    /\ IdleAgent
    /\ IdleSizing
    /\ IdleAudit
    /\ IdleTrail
    /\ IdleWhale
    /\ IdleDet
    /\ clock = StartTime
    /\ lastOp = "new"

\* A throttle call: from a function that was just started, at once; from
\* elsewhere, not after the time a sleeping processQueue is woken at.
LM_throttle ==
    /\ limiter.calls < MaxCalls
    /\ \E gap \in ThrottleGaps :
          /\ Looping(limiter) => gap = 0
          /\ \A k \in ActiveLoops(limiter) :
                limiter.loops[k].pc = "sleeping" => clock + gap <= limiter.loops[k].wake
          /\ clock' = clock + gap
          /\ limiter' = RateLimiter_throttle(limiter, clock + gap)
    /\ UNCHANGED <<flight, construction, retryRun, slVars, ddVars, agentVars, sizing,
                   auditVars, trail, whaleVars, detVars, lastOp>>

\* The function that was started hands control back: the loop goes on.
LM_loop ==
    /\ \E k \in ActiveLoops(limiter) :
          /\ limiter.loops[k].pc = "looping"
          /\ limiter' = RateLimiter_iterate(limiter, k, clock)
    /\ UNCHANGED <<flight, construction, retryRun, slVars, ddVars, agentVars, sizing,
                   auditVars, trail, whaleVars, detVars, clock, lastOp>>

\* The timer of a sleeping processQueue fires.
LM_wake ==
    /\ ~Looping(limiter)
    /\ \E k \in ActiveLoops(limiter), late \in TimerLateness :
          /\ limiter.loops[k].pc = "sleeping"
          /\ \A j \in ActiveLoops(limiter) : limiter.loops[k].wake <= limiter.loops[j].wake
          /\ clock' = (IF clock < limiter.loops[k].wake THEN limiter.loops[k].wake
                                                         ELSE clock) + late
          /\ limiter' = RateLimiter_shift(limiter, k, clock')
    /\ UNCHANGED <<flight, construction, retryRun, slVars, ddVars, agentVars, sizing,
                   auditVars, trail, whaleVars, detVars, lastOp>>

NextLimiter == LM_throttle \/ LM_loop \/ LM_wake

SpecLimiter == InitLimiter /\ [][NextLimiter]_vars

\* A function that was started hands control back and timers fire.
SpecLimiterFair == SpecLimiter /\ WF_vars(LM_loop) /\ WF_vars(LM_wake)

-----------------------------------------------------------------------------
(* Operations on a BaseAgent with processMarketData run await by await.    *)
(* One call of processMarketData is under way at a time; start, stop,      *)
(* and getStatus come at any time, updatePosition between two calls.  The  *)
(* oracle monitor has heard from none or from each of its sources.         *)
(* pmdLast holds what the call under way comes to when it is run from its  *)
(* call to its return with nothing in between.  No time passes: every read *)
(* of Date.now() gives the same value.                                     *)

InitTick ==
    /\ \E config \in AgentConfigs, monitor \in {OracleMonitor_new(Sources), FedMonitor} :
          agent = [BaseAgent_new(config, InitialValue, StartTime) EXCEPT
                      !.oracleMonitor = monitor]
    /\ pmdLast = NoCall
    /\ agentOps = NoOps
    /\ flight = NoFlight
    /\ construction = NoConstruction
    /\ retryRun = NoRetry
    /\ limiter = NoLimiter
    /\ IdleSL
    /\ IdleDD
    /\ IdleSizing
    /\ IdleAudit
    /\ IdleTrail
    /\ IdleWhale
    /\ IdleDet
    /\ clock = StartTime
    /\ lastOp = "new"

TK_start ==
    /\ ~agent.isRunning
    /\ agent' = BaseAgent_start(agent, clock)
    /\ UNCHANGED <<pmdLast, agentOps, flight, construction, retryRun, limiter, slVars,
                   ddVars, sizing, auditVars, trail, whaleVars, detVars, clock, lastOp>>

TK_stop ==
    /\ agent.isRunning
    /\ agent' = BaseAgent_stop(agent, clock)
    /\ flight' = IF InFlight(flight) THEN [flight EXCEPT !.stopped = TRUE] ELSE flight
    /\ UNCHANGED <<pmdLast, agentOps, construction, retryRun, limiter, slVars, ddVars,
                   sizing, auditVars, trail, whaleVars, detVars, clock, lastOp>>

TK_updatePosition ==
    /\ ~InFlight(flight)
    /\ agentOps.position < MaxPositionUpdates
    /\ \E marketId \in Markets, amount \in TradeAmounts, price \in MarketPrices,
          isBuy \in BOOLEAN :
          agent' = BaseAgent_updatePosition(agent, marketId, amount, price, isBuy, clock)
    /\ agentOps' = [agentOps EXCEPT !.position = @ + 1]
    /\ UNCHANGED <<pmdLast, flight, construction, retryRun, limiter, slVars, ddVars,
                   sizing, auditVars, trail, whaleVars, detVars, clock, lastOp>>

TK_getStatus ==
    /\ \E r \in {BaseAgent_getStatus(agent, clock, clock)} : agent' = r.a
    /\ UNCHANGED <<pmdLast, agentOps, flight, construction, retryRun, limiter, slVars,
                   ddVars, sizing, auditVars, trail, whaleVars, detVars, clock, lastOp>>

TK_processMarketData ==
    /\ ~InFlight(flight)
    /\ agentOps.ticks < MaxFlights
    /\ \E marketId \in Markets, snapshot \in Snapshots :
          \E strategy \in Decisions(marketId) :
             \E marketData \in {[marketId |-> marketId, currentPrice |-> snapshot[1],
                                 liquidity |-> snapshot[2]]} :
                \E whole \in {BaseAgent_processMarketData(agent, marketData, strategy,
                                                          clock, clock)},
                   r \in {BaseAgent_callProcessMarketData(agent, marketData, strategy,
                                                          clock, clock)} :
                    /\ agent' = r.a
                    /\ flight' = r.f
                    /\ pmdLast' =
                           [exit |-> whole.exit, gates |-> whole.gates,
                            decision |-> whole.decision,
                            logged |-> Len(whole.a.auditLogger.entries)
                                           - Len(agent.auditLogger.entries)]
    /\ agentOps' = [agentOps EXCEPT !.ticks = @ + 1]
    /\ UNCHANGED <<construction, retryRun, limiter, slVars, ddVars, sizing, auditVars,
                   trail, whaleVars, detVars, clock, lastOp>>

TK_resume ==
    /\ InFlight(flight)
    /\ \E r \in {BaseAgent_resumeProcessMarketData(agent, flight, clock)} :
          /\ agent' = r.a
          /\ flight' = r.f
    /\ UNCHANGED <<pmdLast, agentOps, construction, retryRun, limiter, slVars, ddVars,
                   sizing, auditVars, trail, whaleVars, detVars, clock, lastOp>>

NextTick ==
    \/ TK_start
    \/ TK_stop
    \/ TK_updatePosition
    \/ TK_getStatus
    \/ TK_processMarketData
    \/ TK_resume

SpecTick == InitTick /\ [][NextTick]_vars

-----------------------------------------------------------------------------
(* updatePosition on its own: buys and sells of one or two units in two    *)
(* markets, applied to an agent as constructed.                            *)

InitPositions ==
    /\ \E config \in AgentConfigs :
          agent = BaseAgent_new(config, InitialValue, StartTime)
    /\ pmdLast = NoCall
    /\ agentOps = NoOps
    /\ IdleSL
    /\ IdleDD
    /\ IdleLib
    /\ clock = StartTime
    /\ lastOp = "new"

PO_updatePosition ==
    /\ agentOps.position < MaxUpdates
    /\ \E marketId \in PositionMarkets, amount \in PositionAmounts,
          price \in MarketPrices, isBuy \in BOOLEAN :
          /\ agent' = BaseAgent_updatePosition(agent, marketId, amount, price, isBuy,
                                               clock)
          /\ lastOp' = IF isBuy THEN "buy" ELSE "sell"
    /\ agentOps' = [agentOps EXCEPT !.position = @ + 1]
    /\ UNCHANGED <<pmdLast, slVars, ddVars, clock, libVars>>

NextPositions == PO_updatePosition

SpecPositions == InitPositions /\ [][NextPositions]_vars

-----------------------------------------------------------------------------
(* Construction of an agent: a configuration and a wallet balance are      *)
(* handed to the BaseAgent constructor.                                    *)

InitConstruct ==
    /\ \E config \in AgentConfigs, rebalanceThreshold \in RebalanceThresholds,
          balance \in WalletBalances :
          construction = [config |-> config, rebalanceThreshold |-> rebalanceThreshold,
                          balance |-> balance, called |-> FALSE, threw |-> FALSE,
                          agent |-> <<>>]
    /\ flight = NoFlight
    /\ retryRun = NoRetry
    /\ limiter = NoLimiter
    /\ IdleSL
    /\ IdleDD
    /\ IdleAgent
    /\ IdleSizing
    /\ IdleAudit
    /\ IdleTrail
    /\ IdleWhale
    /\ IdleDet
    /\ clock = StartTime
    /\ lastOp = "new"

CN_new ==
    /\ ~construction.called
    /\ \E r \in {BaseAgent_constructor(construction.config,
                                       construction.rebalanceThreshold,
                                       construction.balance, clock)} :
          construction' = [construction EXCEPT !.called = TRUE, !.threw = r.threw,
                                               !.agent = r.agent]
    /\ UNCHANGED <<flight, retryRun, limiter, slVars, ddVars, agentVars, sizing,
                   auditVars, trail, whaleVars, detVars, clock, lastOp>>

NextConstruct == CN_new

SpecConstruct == InitConstruct /\ [][NextConstruct]_vars

-----------------------------------------------------------------------------
(* Properties of the StopLossManager (checked under SpecSL) *)

LastSLCall == slCalls[Len(slCalls)]

\* C1: once an updatePrice call has returned shouldExit = TRUE the tracker is
\* in its terminal state (no longer active), and every later updatePrice call
\* returns shouldExit = FALSE without a reason.
C1_TerminalAfterExit ==
    \A i \in 1..Len(slCalls) :
        slCalls[i].shouldExit =>
            /\ ~manager.isActive
            /\ \A j \in (i + 1)..Len(slCalls) :
                  ~slCalls[j].shouldExit /\ slCalls[j].reason = NoReason

\* The three exit conditions as the latest active call evaluated them (the
\* running high is the one the call left behind).
StopCond == LastSLCall.price <= calculateStopLossPrice(manager)
TakeCond == /\ manager.params.takeProfitPercent # 0
            /\ LastSLCall.price >= calculateTakeProfitPrice(manager)
TrailCond == /\ manager.params.trailingStopPercent # 0
             /\ LastSLCall.price <= calculateTrailingStopPrice(manager)

\* C6: updatePrice evaluates stop-loss, then take-profit, then trailing stop and
\* the first matching condition wins: STOP_LOSS whenever the stop-loss
\* condition holds, TAKE_PROFIT in preference to TRAILING_STOP, one reason at
\* most, and no exit when no condition holds.
C6_FirstMatchWins ==
    (lastOp = "updatePrice" /\ LastSLCall.active) =>
        /\ StopCond => LastSLCall.reason = "STOP_LOSS"
        /\ (~StopCond /\ TakeCond) => LastSLCall.reason = "TAKE_PROFIT"
        /\ (~StopCond /\ ~TakeCond /\ TrailCond) => LastSLCall.reason = "TRAILING_STOP"
        /\ (~StopCond /\ ~TakeCond /\ ~TrailCond) => LastSLCall.reason = NoReason
        /\ LastSLCall.shouldExit <=> LastSLCall.reason # NoReason

\* Witness of C6: a call at which the take-profit and the trailing-stop
\* conditions both held and TAKE_PROFIT was reported.
C6_Witness ==
    /\ lastOp = "updatePrice" /\ LastSLCall.active
    /\ ~StopCond /\ TakeCond /\ TrailCond
    /\ LastSLCall.reason = "TAKE_PROFIT"

\* The levels the documentation states: entry minus / plus the configured
\* fraction of the entry, and the running high minus the trailing fraction of it.
StatedStopLossPrice(params) ==
    params.entryPrice - (params.entryPrice * params.stopLossPercent) \div 10000
StatedTakeProfitPrice(params) ==
    params.entryPrice + (params.entryPrice * params.takeProfitPercent) \div 10000
StatedTrailingStopPrice(params, high) ==
    high - (high * params.trailingStopPercent) \div 10000

\* C7: on a fresh tracker with entry E, stop-loss fraction s and take-profit
\* fraction t, the first updatePrice(p) returns STOP_LOSS iff p <= E - E*s,
\* TAKE_PROFIT iff p >= E + E*t, and no exit for a price strictly between the
\* two levels that does not breach a trailing stop.
C7_Thresholds ==
    (Len(slCalls) = 1 /\ LastSLCall.active /\ manager.params.takeProfitPercent # 0) =>
        LET p == LastSLCall.price
            params == manager.params
            high == IF p > params.entryPrice THEN p ELSE params.entryPrice
            trailing == /\ params.trailingStopPercent # 0
                        /\ p <= StatedTrailingStopPrice(params, high)
        IN  /\ LastSLCall.reason = "STOP_LOSS" <=> p <= StatedStopLossPrice(params)
            /\ LastSLCall.reason = "TAKE_PROFIT" <=> p >= StatedTakeProfitPrice(params)
            /\ (/\ p > StatedStopLossPrice(params)
                /\ p < StatedTakeProfitPrice(params)
                /\ ~trailing) => ~LastSLCall.shouldExit

RECURSIVE MaxPriceSeen(_, _)
MaxPriceSeen(calls, n) ==
    IF n = 0 THEN 0
    ELSE LET rest == MaxPriceSeen(calls, n - 1)
         IN  IF calls[n].active /\ calls[n].price > rest THEN calls[n].price ELSE rest

\* C8: the running high is the maximum of the entry price and the prices seen;
\* an update to a price at or below the running high less the trailing
\* fraction of it, above the stop-loss level (and below the take-profit level,
\* which has precedence), reports TRAILING_STOP; with entry 1000, stop 5%,
\* take 15%, trailing 10%, updatePrice(1200) then updatePrice(1079) reports
\* TRAILING_STOP.
C8_TrailingStop ==
    LET params == manager.params
        seen == MaxPriceSeen(slCalls, Len(slCalls))
    IN  /\ manager.highestPrice =
              (IF seen > params.entryPrice THEN seen ELSE params.entryPrice)
        /\ (/\ lastOp = "updatePrice" /\ LastSLCall.active
            /\ params.trailingStopPercent # 0
            /\ LastSLCall.price <= StatedTrailingStopPrice(params, manager.highestPrice)
            /\ LastSLCall.price > StatedStopLossPrice(params)
            /\ ~(params.takeProfitPercent # 0
                 /\ LastSLCall.price >= StatedTakeProfitPrice(params)))
           => (LastSLCall.shouldExit /\ LastSLCall.reason = "TRAILING_STOP")
        /\ (/\ params = TestStopLossParams
            /\ Len(slCalls) = 2 /\ manager.isActive
            /\ slCalls[1].price = 1200 /\ slCalls[2].price = 1079)
           => (slCalls[2].shouldExit /\ slCalls[2].reason = "TRAILING_STOP")

-----------------------------------------------------------------------------
(* Properties of the DrawdownProtector (checked under SpecDD) *)

LastDDCall == ddCalls[Len(ddCalls)]

\* The limits as the claims state them, from the peak and the daily baseline
\* in force once the call has refreshed them.
TotalLimitHit(state, config) ==
    /\ state.peakValue # 0
    /\ (state.peakValue - state.currentValue) * 10000
           >= config.maxTotalDrawdownPercent * state.peakValue
DailyLimitHit(state, config) ==
    /\ state.dailyStartValue # 0
    /\ (state.dailyStartValue - state.currentValue) * 10000
           >= config.maxDailyDrawdownPercent * state.dailyStartValue

\* C2: an updateValue made outside an unexpired cooldown with the total or the
\* daily drawdown at or over its limit sets inCooldown, sets cooldownEnd to the
\* time the cooldown is entered plus cooldownPeriodMs, increments
\* triggeredCount by exactly one and returns CRITICAL with canTrade = FALSE.
\* (The time the cooldown is entered is the Date.now() read by
\* triggerCooldown, recorded as the call's "last".)
C2_LimitEntersCooldown ==
    [][ (lastOp' = "updateValue" /\ Len(ddCalls') = Len(ddCalls) + 1) =>
          LET call == ddCalls'[Len(ddCalls')]
              pre == protector.state
              post == protector'.state
              config == protector.config
              unexpired == pre.inCooldown /\ call.now < pre.cooldownEnd
          IN  (~unexpired /\ (TotalLimitHit(post, config) \/ DailyLimitHit(post, config)))
                 => /\ post.inCooldown
                    /\ post.cooldownEnd = call.last + config.cooldownPeriodMs
                    /\ post.triggeredCount = pre.triggeredCount + 1
                    /\ call.status = "CRITICAL"
                    /\ ~call.canTrade ]_vars

\* Witness of C2: the daily limit was met while the total limit was not, and
\* the guard entered its first cooldown.
C2_Witness ==
    /\ lastOp = "updateValue"
    /\ DailyLimitHit(protector.state, protector.config)
    /\ ~TotalLimitHit(protector.state, protector.config)
    /\ LastDDCall.status = "CRITICAL"
    /\ protector.state.triggeredCount = 1

C4_SecondCallCritical ==
    (/\ Len(ddCalls) = 2
     /\ ddCalls[2].now - ddCalls[1].last < protector.config.cooldownPeriodMs
     /\ ddCalls[2].now - StartTime <= DayMs
     /\ \A i \in 1..2 :
           (InitialValue - ddCalls[i].value) * 10000
               >= protector.config.maxDailyDrawdownPercent * InitialValue)
    => (ddCalls[2].status = "CRITICAL" /\ ~ddCalls[2].canTrade)

-----------------------------------------------------------------------------
(* Properties of the decision pipeline (checked under SpecAgent) *)

GateOrder ==
    <<"drawdown", "oracle", "manipulation", "strategy", "confidence", "sizing", "stoploss">>

\* C9: processMarketData goes through the gates in the fixed order drawdown
\* guard, oracle health, manipulation detectors, strategy decision, confidence
\* gate, position sizing, stop-loss override and stops at the first gate that
\* rejects: the gates gone through are an initial part of that order, a halted
\* drawdown guard or an unhealthy oracle ends the call there, a gate that was
\* not reached has left no trace (no probe order recorded by the whale
\* detector, no stop-loss tracker brought up to date, no audit entry of a later
\* gate), and a call that ends before the last gate returns no trade.
C9_GateOrder ==
    [][ agentOps'.ticks = agentOps.ticks + 1 =>
          LET call == pmdLast'
              n == Len(call.gates)
              entered == agent.isRunning /\ agent.config.tradingEnabled
              halted == agent'.drawdownProtector.state.inCooldown
              healthy == OracleMonitor_checkHealth(agent.oracleMonitor).healthy
          IN  /\ call.gates = SubSeq(GateOrder, 1, n)
              /\ n = 0 <=> ~entered
              /\ (entered /\ halted) => n = 1
              /\ (entered /\ ~halted /\ ~healthy) => n = 2
              /\ (entered /\ ~halted /\ healthy) => n >= 3
              /\ n = 0 => agent'.drawdownProtector = agent.drawdownProtector
              /\ n < 3 => agent'.whaleDetector = agent.whaleDetector
              /\ n >= 3 => agent'.whaleDetector # agent.whaleDetector
              /\ n < 7 => agent'.stopLossManagers = agent.stopLossManagers
              /\ n < 7 => call.decision = NoDecision
              /\ call.exit = "rejected" => call.decision = NoDecision
              /\ n = 1 => call.exit = "rejected"
              /\ n = 2 => call.exit = "rejected" ]_vars

\* Witness of C9: a call was rejected at the confidence gate while the market
\* had a stop-loss tracker, after the whale detector had recorded the probe.
C9_Witness ==
    /\ pmdLast.exit = "rejected"
    /\ pmdLast.gates = SubSeq(GateOrder, 1, 5)
    /\ DOMAIN agent.stopLossManagers # {}
    /\ DOMAIN agent.whaleDetector.orderHistory # {}

\* C10: every processMarketData call that enters the pipeline has appended an
\* audit entry by the time it returns, whichever gate rejected it and also
\* when it approved.
C10_EveryOutcomeAudited ==
    (pmdLast.exit \notin {"none", "not_running"}) => pmdLast.logged >= 1

-----------------------------------------------------------------------------
(* The last three gates of the pipeline (checked under SpecAgent).  The    *)
(* probe order that checkForManipulation hands to the whale detector       *)
(* carries the price of the snapshot and a hundredth of its liquidity, and *)
(* it stays in the order history of the market.                            *)

ProbeMarket == CHOOSE m \in Markets : m \in DOMAIN agent'.whaleDetector.orderHistory

LastProbe ==
    LET orders == agent'.whaleDetector.orderHistory[ProbeMarket]
    IN  orders[Len(orders)]

\* The audit entries appended during the step.
AppendedTypes ==
    LET before == Len(agent.auditLogger.entries)
        after == agent'.auditLogger.entries
    IN  {after[i].type : i \in (before + 1)..Len(after)}

\* C11: when the evaluation reaches the strategy and the market of the snapshot
\* has an active stop-loss tracker that signals an exit at the snapshot's
\* price, processMarketData returns a SELL of the whole position held in that
\* market, whatever the strategy proposed.
C11_StopLossOverride ==
    [][ (agentOps'.ticks = agentOps.ticks + 1 /\ Len(pmdLast'.gates) >= 4) =>
          LET m == ProbeMarket
              tracked == m \in DOMAIN agent.stopLossManagers
              signal == StopLossManager_updatePrice(agent.stopLossManagers[m],
                                                    LastProbe.price)
          IN  (tracked /\ signal.active /\ signal.shouldExit) =>
                 /\ pmdLast'.decision.action = "SELL"
                 /\ pmdLast'.decision.marketId = m
                 /\ pmdLast'.decision.amount = getPositionSize(agent, m) ]_vars

\* C12: the manipulation gate rejects only on a CRITICAL alert; when the probe
\* order raises an alert of lower severity only (a WHALE_ORDER alert of
\* severity HIGH for a probe of at least whaleThreshold on a market that has
\* liquidity), the evaluation goes on to the strategy and the alert is logged
\* as a SECURITY_ALERT entry.
C12_LowerSeverityIsWarning ==
    [][ (agentOps'.ticks = agentOps.ticks + 1 /\ Len(pmdLast'.gates) >= 3) =>
          /\ Len(pmdLast'.gates) = 3 =>
                WhaleDetector_analyzeOrder(agent.whaleDetector, LastProbe,
                    IF LastProbe.amount = 0 THEN 0 ELSE LastProbe.amount * 100,
                    LastProbe.timestamp).alert.severity = "CRITICAL"
          /\ LastProbe.amount >= agent.config.whaleThreshold =>
                /\ Len(pmdLast'.gates) >= 4
                /\ "SECURITY_ALERT" \in AppendedTypes ]_vars

\* C13: when position sizing raises its domain error (the proposed decision
\* has a confidence outside (0,1)), the error reaches the caller: the call
\* does not end in the catch block with a result of no trade.
C13_SizingErrorReachesCaller ==
    ~(pmdLast.exit = "error" /\ pmdLast.gates = SubSeq(GateOrder, 1, 6))

-----------------------------------------------------------------------------
(* Properties of calculateKellyCriterion (checked under SpecKelly) *)

KellyDomain ==
    /\ sizing.params.bankroll >= 0
    /\ sizing.params.winProbability > 0 /\ sizing.params.winProbability < 10000
    /\ sizing.params.winLossRatio > 0
    /\ sizing.params.kellyFraction \in 0..10000
    /\ sizing.params.maxPositionPercent \in 0..10000

\* r*p - (1-p), in units of 1/10000^2
KellyEdge ==
    sizing.params.winLossRatio * sizing.params.winProbability
        - (10000 - sizing.params.winProbability) * 10000

\* C14: for a bankroll >= 0, p in (0,1), r > 0, kellyFraction and
\* maxPositionPercent in [0,1], calculateKellyCriterion returns a value that is
\* non-negative and at most bankroll * maxPositionPercent, and that is 0
\* whenever r*p - (1-p) <= 0.
C14_KellyBounds ==
    (sizing.called /\ KellyDomain) =>
        /\ ~sizing.threw
        /\ Len(sizing.returned) = 1
        /\ sizing.returned[1] >= 0
        /\ sizing.returned[1] * 10000
               <= sizing.params.bankroll * sizing.params.maxPositionPercent
        /\ KellyEdge <= 0 => sizing.returned[1] = 0

\* Witness of C14: a call with an edge whose result is held at the cap.
C14_Witness ==
    /\ sizing.called /\ KellyDomain /\ KellyEdge > 0
    /\ sizing.params.maxPositionPercent = 1000
    /\ sizing.params.bankroll = 10000
    /\ sizing.returned = <<1000>>

\* C15: calculateKellyCriterion throws, and returns no value, whenever
\* winProbability <= 0, winProbability >= 1 or winLossRatio <= 0, whatever the
\* other parameters are.
C15_KellyDomainError ==
    (/\ sizing.called
     /\ \/ sizing.params.winProbability <= 0
        \/ sizing.params.winProbability >= 10000
        \/ sizing.params.winLossRatio <= 0)
        => (sizing.threw /\ sizing.returned = <<>>)

\* Witness of C15: a call with winProbability 0 and otherwise valid parameters
\* has thrown.
C15_Witness ==
    /\ sizing.called /\ sizing.threw
    /\ sizing.params.winProbability = 0
    /\ sizing.params.winLossRatio > 0

-----------------------------------------------------------------------------
(* Properties of the audit ledger (checked under SpecAudit and SpecTrail) *)

\* C16: verifyEntry returns true for an entry returned by log that was not
\* modified, and false for a copy of a recorded entry whose payload was changed
\* while its hash was kept.
C16_VerifyEntry ==
    /\ (audit.op = "log" /\ audit.outcome = "returned") =>
          AuditLogger_verifyEntry(audit.entry[1]) = "true"
    /\ audit.op = "verifyEntry" =>
          LET recorded == ledger.entries[audit.of]
              entry == audit.entry[1]
          IN  /\ entry = recorded => audit.outcome = "true"
              /\ (entry.data # recorded.data /\ entry.hash = recorded.hash) =>
                    audit.outcome = "false"

\* The reference computation of the root: pair the nodes of a level two by two,
\* an unmatched last node with itself, until one node is left.
ReferenceLevel(nodes) ==
    [k \in 1..((Len(nodes) + 1) \div 2) |->
        IF 2 * k <= Len(nodes) THEN <<nodes[2 * k - 1], nodes[2 * k]>>
        ELSE <<nodes[2 * k - 1], nodes[2 * k - 1]>>]

RECURSIVE ReferenceRoot(_)
ReferenceRoot(nodes) ==
    IF Len(nodes) = 0 THEN ZeroHash
    ELSE IF Len(nodes) = 1 THEN nodes[1]
    ELSE ReferenceRoot(ReferenceLevel(nodes))

\* C17: getMerkleRoot returns the reference root of the hashes of the entries
\* in the order they were appended: the zero hash for no entry, the leaf for
\* one entry, and otherwise the node left after pairing level by level.
C17_MerkleRoot ==
    audit.op = "getMerkleRoot" =>
        audit.entry[1] =
            ReferenceRoot([i \in 1..Len(ledger.entries) |-> ledger.entries[i].hash])

\* Witness of C17: the root was asked of a ledger of three entries, whose
\* first level has an unmatched last node.
C17_Witness ==
    /\ audit.op = "getMerkleRoot"
    /\ Len(ledger.entries) = 3

\* C18: the entries stored in an AuditLogger are non-decreasing in timestamp,
\* in the order they were appended.
C18_TimestampOrder ==
    \A i \in 1..(Len(ledger.entries) - 1) :
        ledger.entries[i].timestamp <= ledger.entries[i + 1].timestamp

\* C19: when verifyTrail returns, it has reported an issue for every entry
\* after the first whose timestamp is less than its predecessor's, and it
\* returns valid = true with invalidCount = 0 exactly when every stored hash
\* equals the recomputed one, no signature present is invalid, and the
\* timestamps are non-decreasing.
C19_VerifyTrail ==
    (trail.result.called /\ ~trail.result.threw) =>
        LET entries == trail.entries
            outOfOrder(i) == entries[i].timestamp < entries[i - 1].timestamp
            reported(i) == \E k \in 1..Len(trail.result.issues) :
                               trail.result.issues[k].hash = entries[i].hash
        IN  /\ \A i \in 2..Len(entries) : outOfOrder(i) => reported(i)
            /\ (trail.result.valid /\ trail.result.invalidCount = 0) <=>
                  /\ \A i \in 1..Len(entries) : generateHash(entries[i]) = entries[i].hash
                  /\ \A i \in 1..Len(entries) : entries[i].signature # "malformed"
                  /\ \A i \in 2..Len(entries) : ~outOfOrder(i)

-----------------------------------------------------------------------------
(* Properties of the WhaleDetector (checked under SpecWhale) *)

SeverityRank(severity) ==
    CASE severity = "LOW" -> 1
      [] severity = "MEDIUM" -> 2
      [] severity = "HIGH" -> 3
      [] severity = "CRITICAL" -> 4

\* C20: analyzeOrder returns at most one alert, null when the order raised
\* none, and otherwise one of the alerts raised for the order whose severity
\* no other alert raised for it exceeds.
C20_HighestSeverityFirst ==
    /\ Len(whaleCall.alerts) = 0 <=> whaleCall.alert = NoAlert
    /\ Len(whaleCall.alerts) > 0 =>
          /\ \E k \in 1..Len(whaleCall.alerts) : whaleCall.alerts[k] = whaleCall.alert
          /\ \A k \in 1..Len(whaleCall.alerts) :
                SeverityRank(whaleCall.alerts[k].severity)
                    <= SeverityRank(whaleCall.alert.severity)

\* C21: with volume threshold T and the default 2% price-impact threshold, an
\* order of amount T against liquidity T (impact 0.5) yields an alert of type
\* PRICE_IMPACT, and an order of amount 2T against liquidity 10T yields an
\* alert of type WHALE_ORDER.
C21_TestedAlerts ==
    /\ (whaleCall.amount = WhaleThreshold /\ whaleCall.liquidity = WhaleThreshold)
          => whaleCall.alert.type = "PRICE_IMPACT"
    /\ (whaleCall.amount = 2 * WhaleThreshold /\ whaleCall.liquidity = 10 * WhaleThreshold)
          => whaleCall.alert.type = "WHALE_ORDER"

-----------------------------------------------------------------------------
(* Properties of the WashTradingDetector (checked under SpecWash).  A call  *)
(* is the step from a detector to the next one: washCall' holds the array   *)
(* handed and the alert returned.                                           *)

\* Two strings are the same address when they differ in case only.
SameAddress(a, b) == toLowerCase(a) = toLowerCase(b)

\* The number of trades a detector has stored
StoredCount(d) ==
    LET RECURSIVE total(_)
        total(i) == IF i > Len(d.marketKeys) THEN 0
                    ELSE Len(d.tradeHistory[d.marketKeys[i]]) + total(i + 1)
    IN  total(1)

\* The array of a market after the first k trades of an array handed to the
\* detector have been stored on top of a history
HistoryAfter(history, trades, k, marketId) ==
    (IF marketId \in DOMAIN history THEN history[marketId] ELSE <<>>)
        \o SelectSeq(SubSeq(trades, 1, k), LAMBDA t : t.marketId = marketId)

\* The call of a step stored the first n trades of its array and nothing else
StoredPrefix(n) ==
    \A marketId \in WashMarkets :
        HistoryAfter(wash.tradeHistory, washCall'.trades, n, marketId)
            = IF marketId \in DOMAIN wash'.tradeHistory THEN wash'.tradeHistory[marketId]
              ELSE <<>>

\* C22: a trade whose buyer equals its seller, compared case-insensitively,
\* immediately yields a SELF_TRADING alert with confidence 1.0 and severity
\* CRITICAL that names that address, and the trade is not added to the trade
\* history: a call handed such a trade returns that alert for the first one
\* in the array, having stored the trades before it and nothing else, unless
\* an earlier trade of the array already raised CIRCULAR_TRADING.
C22_SelfTrading ==
    [][ LET trades == washCall'.trades
            n == StoredCount(wash') - StoredCount(wash)
            selfs == {k \in 1..Len(trades) : SameAddress(trades[k].buyer, trades[k].seller)}
        IN  /\ StoredPrefix(n)
            /\ selfs # {} =>
                  LET k == CHOOSE i \in selfs : \A j \in selfs : i <= j
                  IN  \/ washCall'.alert.type = "CIRCULAR_TRADING" /\ n < k
                      \/ /\ n = k - 1
                         /\ washCall'.alert =
                               [type |-> "SELF_TRADING", severity |-> "CRITICAL",
                                addresses |-> <<trades[k].buyer>>,
                                marketId |-> trades[k].marketId,
                                volume |-> trades[k].amount, confidence |-> 10000]
            /\ washCall'.alert.type = "SELF_TRADING" => (n + 1) \in selfs
      ]_vars

\* Witness of C22: a call handed one trade whose buyer and seller differ in
\* case only has returned SELF_TRADING and the history is still empty.
C22_Witness ==
    /\ Len(washCall.trades) = 1
    /\ washCall.trades[1].buyer = "0xA" /\ washCall.trades[1].seller = "0xa"
    /\ washCall.alert.type = "SELF_TRADING"
    /\ wash.tradeHistory = EmptyMap

\* A trade's timestamp is inside the time window that ends at now
InWindow(d, trade, now) == now - trade.timestamp < d.timeWindowMs

\* The number of in-window trades of a market's array between an unordered
\* pair of addresses, in either direction
PairCount(d, marketTrades, pair, now) ==
    Cardinality({i \in 1..Len(marketTrades) :
        /\ InWindow(d, marketTrades[i], now)
        /\ {toLowerCase(marketTrades[i].buyer), toLowerCase(marketTrades[i].seller)} = pair})

AddressPairs ==
    {{toLowerCase(a), toLowerCase(b)} : a \in WashAddresses, b \in WashAddresses}

\* Some pair has traded at least minTradeCount times in a market's array
Ripe(d, marketTrades, now) ==
    \E pair \in AddressPairs : PairCount(d, marketTrades, pair, now) >= d.minTradeCount

\* C23: CIRCULAR_TRADING is returned as soon as, after storing a trade, some
\* unordered address pair has at least minTradeCount in-window trades in that
\* trade's market, never before, and never while every pair has fewer in
\* every market; the alert names such a pair with confidence
\* min(count / 10, 1.0); three alternating A/B trades with minTradeCount 3
\* yield CIRCULAR_TRADING.
C23_CircularTrading ==
    [][ LET trades == washCall'.trades
            n == StoredCount(wash') - StoredCount(wash)
            after(k) == HistoryAfter(wash.tradeHistory, trades, k, trades[k].marketId)
            ripeAt(k) == Ripe(wash, after(k), clock)
            alert == washCall'.alert
        IN  /\ \A k \in 1..(n - 1) : ~ripeAt(k)
            /\ alert.type = "CIRCULAR_TRADING" <=> (n >= 1 /\ ripeAt(n))
            /\ alert.type = "CIRCULAR_TRADING" =>
                  /\ \E marketId \in DOMAIN wash'.tradeHistory :
                        Ripe(wash', wash'.tradeHistory[marketId], clock)
                  /\ alert.marketId = trades[n].marketId
                  /\ Len(alert.addresses) = 2
                  /\ LET count == PairCount(wash, after(n),
                                            {alert.addresses[1], alert.addresses[2]}, clock)
                     IN  /\ count >= wash.minTradeCount
                         /\ alert.confidence = Min2(count * 1000, 10000)
            /\ (trades = AlternatingTrades(clock) /\ wash.minTradeCount = 3)
                  => alert.type = "CIRCULAR_TRADING"
      ]_vars

\* Witness of C23: a fresh detector with minTradeCount 3 handed the three
\* alternating trades has stored all three and returned CIRCULAR_TRADING.
C23_Witness ==
    /\ wash.minTradeCount = 3
    /\ washCall.trades = AlternatingTrades(clock)
    /\ StoredCount(wash) = 3
    /\ washCall.alert.type = "CIRCULAR_TRADING"
    /\ washCall.alert.confidence = 3000

\* A pair with more than ten in-window trades is reported with confidence 1.0
C23_WitnessCapped ==
    /\ StoredCount(wash) = 11
    /\ washCall.alert.type = "CIRCULAR_TRADING"
    /\ washCall.alert.confidence = 10000

-----------------------------------------------------------------------------
(* Properties of the OracleMonitor (checked under SpecOracle).  After a     *)
(* checkHealth call, oracleCall holds what it returned for the monitor as   *)
(* it is and clock is the time of the call.                                 *)

\* What the monitor recorded for a source at its latest update puts it in
\* violation: no data, data older than the staleness limit when it arrived, or
\* a price further from the other sources than the deviation limit.
HasData(source) == source \in DOMAIN oracle.sourceStates
RecordedStale(source) ==
    HasData(source) /\ oracle.sourceStates[source].stalenessMs > oracle.maxStalenessMs
RecordedDeviant(source) ==
    /\ HasData(source)
    /\ oracle.sourceStates[source].deviation.n * 10000
           > oracle.maxDeviationPercent * oracle.sourceStates[source].deviation.d

\* C24: checkHealth returns healthy = true iff every configured source has
\* received data, is not stale and is not beyond the deviation limit, as the
\* monitor recorded them; otherwise it returns healthy = false with at least
\* one issue for each violating configured source.
C24_CheckHealth ==
    lastOp = "checkHealth" =>
        /\ oracleCall.healthy <=>
              \A source \in oracle.sources :
                  HasData(source) /\ ~RecordedStale(source) /\ ~RecordedDeviant(source)
        /\ ~oracleCall.healthy =>
              \A source \in oracle.sources :
                  (~HasData(source) \/ RecordedStale(source) \/ RecordedDeviant(source))
                      => \E issue \in oracleCall.issues : issue[1] = source

\* Witness of C24: a check found one configured source without data while a
\* source that is not configured was stale, and reported the former only.
C24_Witness ==
    /\ lastOp = "checkHealth"
    /\ ~oracleCall.healthy
    /\ ~HasData("source2")
    /\ HasData("source1") /\ ~RecordedStale("source1") /\ ~RecordedDeviant("source1")
    /\ RecordedStale("source3")
    /\ oracleCall.issues = {<<"source2", "No data received">>}

\* A check of a monitor all of whose configured sources are in order
C24_WitnessHealthy ==
    /\ lastOp = "checkHealth"
    /\ oracleCall.healthy
    /\ RecordedStale("source3")

\* C25: whenever checkHealth runs while the time elapsed since a configured
\* source's last update exceeds maxStalenessMs, that source is reported stale
\* and the monitor unhealthy, also when the source was fresh at its last
\* updatePrice.
C25_StalenessTracksTime ==
    lastOp = "checkHealth" =>
        \A source \in oracle.sources :
            (HasData(source)
                /\ clock - oracle.sourceStates[source].lastUpdate > oracle.maxStalenessMs)
                => /\ <<source, "Stale data">> \in oracleCall.issues
                   /\ ~oracleCall.healthy

-----------------------------------------------------------------------------
(* Properties of the SandwichProtector (checked under SpecSandwich).  After *)
(* a preTradeCheck call, sandwichCall holds the order checked and the       *)
(* result, and sandwich.pendingTxs the orders pending at the call.          *)

\* C26: preTradeCheck returns safe = false with recommendedSlippage equal to
\* twice maxSlippagePercent iff some pending order (added and not removed) is
\* in the caller's market, from a different trader, with an amount of at
\* least twice the caller's; with no pending order it returns safe = true.
C26_PreTradeCheck ==
    lastOp = "preTradeCheck" =>
        LET user == sandwichCall.userOrder
            pending == {sandwich.pendingTxs[h] : h \in DOMAIN sandwich.pendingTxs}
        IN  /\ (/\ ~sandwichCall.safe
                /\ sandwichCall.recommendedSlippage = 2 * sandwich.maxSlippagePercent)
                  <=> \E o \in pending : /\ o.marketId = user.marketId
                                         /\ o.trader # user.trader
                                         /\ o.amount >= 2 * user.amount
            /\ pending = {} => sandwichCall.safe

\* Witness of C26: the case of the test, a pending order of 300 by another
\* trader against the caller's 100.
C26_Witness ==
    /\ lastOp = "preTradeCheck"
    /\ sandwichCall.userOrder.amount = 100
    /\ \E h \in DOMAIN sandwich.pendingTxs :
          /\ sandwich.pendingTxs[h].trader = "0xWHALE"
          /\ sandwich.pendingTxs[h].amount = 300
          /\ sandwich.pendingTxs[h].marketId = sandwichCall.userOrder.marketId
    /\ ~sandwichCall.safe
    /\ sandwichCall.recommendedSlippage = 2 * sandwich.maxSlippagePercent

\* A check that is unsafe for the other reason: three pending orders of equal
\* size in one second, none of them large.
C26_WitnessCoordinated ==
    /\ lastOp = "preTradeCheck"
    /\ ~sandwichCall.safe
    /\ sandwichCall.recommendedSlippage = sandwich.maxSlippagePercent

\* A check with the caller's own large order pending
C26_WitnessOwnOrder ==
    /\ lastOp = "preTradeCheck"
    /\ sandwichCall.safe
    /\ \E h \in DOMAIN sandwich.pendingTxs :
          /\ sandwich.pendingTxs[h].trader = sandwichCall.userOrder.trader
          /\ sandwich.pendingTxs[h].amount = 300
          /\ sandwich.pendingTxs[h].marketId = sandwichCall.userOrder.marketId

-----------------------------------------------------------------------------
(* The warning level of the DrawdownProtector (checked under SpecDD) *)

\* After an updateValue call: the call met no limit and left the protector
\* out of cooldown.
NoLimitMet ==
    /\ ~protector.state.inCooldown
    /\ QuotLt(calculateDrawdown(protector), protector.config.maxTotalDrawdownPercent)
    /\ QuotLt(calculateDailyDrawdown(protector), protector.config.maxDailyDrawdownPercent)

\* The daily drawdown is strictly greater than 80% of its limit:
\* (start - current) / start > 0.8 * limit, the limit in units of 1/10000.
AboveWarningLevel ==
    /\ protector.state.dailyStartValue > 0
    /\ (protector.state.dailyStartValue - protector.state.currentValue) * 100000
           > 8 * protector.config.maxDailyDrawdownPercent * protector.state.dailyStartValue

\* C27: an updateValue call that meets no limit outside a cooldown returns
\* canTrade = true, with status WARNING if the daily drawdown is strictly
\* greater than 80% of maxDailyDrawdownPercent and NORMAL otherwise.
C27_WarningLevel ==
    (lastOp = "updateValue" /\ NoLimitMet) =>
        /\ LastDDCall.canTrade
        /\ AboveWarningLevel => LastDDCall.status = "WARNING"
        /\ ~AboveWarningLevel => LastDDCall.status = "NORMAL"

\* Witness of C27: the case of the test, 10000 to 9750 with a daily limit of
\* 3%, reported as WARNING.
C27_Witness ==
    /\ lastOp = "updateValue"
    /\ NoLimitMet
    /\ protector.config.maxDailyDrawdownPercent = 300
    /\ protector.state.dailyStartValue = 10000
    /\ LastDDCall.value = 9750
    /\ LastDDCall.status = "WARNING" /\ LastDDCall.canTrade

\* A daily drawdown of exactly 80% of the limit (10000 to 9760 with 3%) is
\* reported as NORMAL, and so is an unchanged equity.
C27_WitnessAtLevel ==
    /\ lastOp = "updateValue"
    /\ NoLimitMet
    /\ protector.config.maxDailyDrawdownPercent = 300
    /\ protector.state.dailyStartValue = 10000
    /\ LastDDCall.value = 9760
    /\ LastDDCall.status = "NORMAL"

C27_WitnessUnchanged ==
    /\ lastOp = "updateValue"
    /\ NoLimitMet
    /\ protector.state.dailyStartValue = 10000
    /\ LastDDCall.value = 10000
    /\ LastDDCall.status = "NORMAL" /\ LastDDCall.canTrade

-----------------------------------------------------------------------------
(* Properties of the PortfolioBalancer constructor (checked under           *)
(* SpecBalancer)                                                            *)

\* The sum of the target fractions of a construction, in units of 1/10000
TargetSum ==
    LET RECURSIVE sumOf(_)
        sumOf(markets) == IF markets = {} THEN 0
                          ELSE LET m == CHOOSE x \in markets : TRUE
                               IN  balancerCall.targetAllocations[m] + sumOf(markets \ {m})
    IN  sumOf(DOMAIN balancerCall.targetAllocations)

C28_WitnessBelow ==
    balancerCall.called /\ TargetSum = 9800 /\ balancerCall.threw
C28_WitnessWithin ==
    balancerCall.called /\ TargetSum = 9950 /\ ~balancerCall.threw
C28_WitnessAbove ==
    balancerCall.called /\ TargetSum = 10020 /\ ~balancerCall.threw

-----------------------------------------------------------------------------
(* Properties of calculateFixedFractional (checked under SpecFixed) *)

\* C29: calculateFixedFractional returns
\* floor(bankroll * floor(fraction * 10000) / 10000) when no maxPosition is
\* supplied, and whenever a maxPosition of any value >= 0, 0 included, is
\* supplied the result does not exceed it.
C29_FixedFractional ==
    fixedCall.called =>
        /\ fixedCall.maxPosition = Undefined =>
              fixedCall.returned
                  = (fixedCall.bankroll * FloorTimes10000(fixedCall.fraction)) \div 10000
        /\ fixedCall.maxPosition # Undefined =>
              fixedCall.returned <= fixedCall.maxPosition

-----------------------------------------------------------------------------
(* Properties of the ReputationGuard (checked under SpecGuard).  After a    *)
(* canInteract call, guardCall holds the address asked about, whether it    *)
(* was locally blocked at the call, the result, and for each fetch the call *)
(* made whether it failed.  blockedFor is an observation of the calls, not  *)
(* a field of the program: the addresses, in lower case, for which          *)
(* blockAddress was called or canInteract answered 'Critical flags', less   *)
(* those unblockAddress was called for since; wasBlocked is taken from it.  *)

\* The call asked the service and every fetch it made failed
LookupFailed ==
    /\ Len(guardCall.lookups) > 0
    /\ \A i \in 1..Len(guardCall.lookups) : guardCall.lookups[i]

\* C30: a failed reputation lookup never blocks: when the service call fails
\* (a response that is not OK or a thrown error), canInteract for an address
\* that is not locally blocked returns allowed = true together with a reason
\* that marks the result as unverified, not a rejection and not a bare
\* approval.
C30_LookupFailureAllowsWithWarning ==
    (lastOp = "canInteract" /\ ~guardCall.wasBlocked /\ LookupFailed) =>
        /\ guardCall.allowed
        /\ guardCall.reason # "undefined"

-----------------------------------------------------------------------------
(* Properties of processMarketData run await by await (checked under       *)
(* SpecTick)                                                               *)

\* What a call has come to once it has returned
Outcome(f) == [exit |-> f.exit, gates |-> f.gates, decision |-> f.decision,
               logged |-> f.logged]

\* C31: stop() is honoured between ticks only.  A processMarketData call that
\* found the agent running goes through the same gates, stores the same
\* number of audit entries and returns the same result as when nothing runs
\* between its call and its return, whether or not stop() was called at one of
\* its awaits; a call made while the agent is stopped returns null at once,
\* with no gate gone through and no entry stored.
C31_StopBetweenTicks ==
    /\ (flight.pc = "done" /\ flight.running)
           => /\ Outcome(flight) = pmdLast
              /\ flight.exit \in {"rejected", "error", "approved"}
    /\ (flight.pc # "none" /\ ~flight.running)
           => /\ flight.pc = "done"
              /\ Outcome(flight) = [exit |-> "not_running", gates |-> <<>>,
                                    decision |-> NoDecision, logged |-> 0]

\* stop() was called at an await of a call that then went through all seven
\* gates and stored its audit entry
C31_Witness ==
    /\ flight.pc = "done"
    /\ flight.running
    /\ flight.stopped
    /\ ~agent.isRunning
    /\ flight.gates = GateOrder
    /\ flight.logged > 0

\* a call made while the agent is stopped has returned
C31_WitnessStopped ==
    /\ flight.pc = "done"
    /\ ~flight.running
    /\ flight.exit = "not_running"

\* No entry and no leaf stored before the step is removed, moved or changed
LedgerKept ==
    \A i \in 1..Len(ledger.entries) :
       /\ i <= Len(ledger'.entries)
       /\ ledger'.entries[i] = ledger.entries[i]
       /\ ledger'.merkleTree[i] = ledger.merkleTree[i]

\* Entries and leaves go in pairs: leaf i is the hash of entry i
LeavesMatch ==
    /\ Len(ledger.entries) = Len(ledger.merkleTree)
    /\ \A i \in 1..Len(ledger.entries) :
          /\ ledger.merkleTree[i] = ledger.entries[i].hash
          /\ ledger.merkleTree[i] = generateHash(ledger.entries[i])

\* C32: the ledger is append-only.  Each log call appends exactly one entry
\* and exactly one leaf; the entry list and the leaf list have the same length
\* with leaf i the hash of entry i; and no call of log, getEntries,
\* verifyEntry, getMerkleRoot or exportToJson removes, reorders or changes an
\* entry or a leaf appended before.
C32_LedgerAppendOnly ==
    [][/\ audit'.op = "log"
          => /\ Len(ledger'.entries) = Len(ledger.entries) + 1
             /\ Len(ledger'.merkleTree) = Len(ledger.merkleTree) + 1
       /\ LeavesMatch'
       /\ LedgerKept]_vars

\* What holds of every call: nothing stored is touched, and a log call
\* appends one entry with its leaf or throws and appends nothing.
C32_AppendOrThrow ==
    [][/\ LeavesMatch'
       /\ LedgerKept
       /\ audit'.op = "log"
          => \/ /\ audit'.outcome = "returned"
                /\ Len(ledger'.entries) = Len(ledger.entries) + 1
             \/ /\ audit'.outcome = "throws"
                /\ ledger' = ledger
       /\ audit'.op # "log" => ledger' = ledger]_vars

-----------------------------------------------------------------------------
(* Properties of updatePosition (checked under SpecPositions)              *)

\* The markets the portfolio holds a position in, and those with a tracker
HeldMarkets == DOMAIN agent.portfolio.positions
TrackedMarkets == DOMAIN agent.stopLossManagers

\* C33: after any sequence of updatePosition calls a stop-loss tracker exists
\* for a market exactly when the portfolio holds a position in that market,
\* and a position that is held has a positive quantity.
C33_TrackerLifecycle ==
    /\ TrackedMarkets = HeldMarkets
    /\ \A marketId \in HeldMarkets : agent.portfolio.positions[marketId].position > 0

\* a position was closed by a sell while another market is still held
C33_Witness ==
    /\ lastOp = "sell"
    /\ HeldMarkets = {"m2"}
    /\ TrackedMarkets = {"m2"}
    /\ agentOps.position = 3

\* The entries log accepts in this development
Loggable ==
    { [type |-> "TRADE", agent |-> "bot", data |-> data, timestamp |-> timestamp] :
         data \in {d \in Payloads : ~StringifyThrows(d)}, timestamp \in LogTimestamps }

\* C34: the Merkle root distinguishes ledgers.  With a hash free of
\* collisions, appending one more entry to the ledger changes what
\* getMerkleRoot returns, also when the entry has the hash of the last one.
C34_RootDistinguishes ==
    \A entry \in Loggable :
        AuditLogger_getMerkleRoot(AuditLogger_log(ledger, entry, clock).logger)
            # AuditLogger_getMerkleRoot(ledger)

\* What holds: an entry whose hash differs from the hash of the last entry
\* changes the root, and so does any entry appended to a ledger whose length is
\* not odd or is 1.
C34_RootChangesUnlessRepeated ==
    \A entry \in Loggable :
        LET after == AuditLogger_log(ledger, entry, clock).logger
            n == Len(ledger.merkleTree)
        IN  AuditLogger_getMerkleRoot(after) = AuditLogger_getMerkleRoot(ledger)
               => /\ n % 2 = 1
                  /\ n > 1
                  /\ after.merkleTree[n + 1] = ledger.merkleTree[n]

-----------------------------------------------------------------------------
(* Properties of the BaseAgent constructor (checked under SpecConstruct)   *)

\* C35: constructing an agent with a valid configuration and wallet completes
\* without throwing and yields an agent whose portfolio has cash and
\* totalValue equal to the wallet balance, no positions and no stop-loss
\* trackers.
C35_ConstructionSucceeds ==
    construction.called
       => /\ ~construction.threw
          /\ Len(construction.agent) = 1
          /\ LET a == construction.agent[1]
             IN  /\ a.portfolio.cash = construction.balance
                 /\ a.portfolio.totalValue = construction.balance
                 /\ DOMAIN a.portfolio.positions = {}
                 /\ DOMAIN a.stopLossManagers = {}

\* What holds: every construction throws, and no agent is built.
C35_ConstructionThrows ==
    construction.called => (construction.threw /\ construction.agent = <<>>)

\* The quantity the portfolio holds in the market of a decision
Held(decision) == getPositionSize(agent, decision.marketId)

C36_OverrideSellsTheHolding ==
    (/\ flight.pc = "validate"
     /\ flight.validated.action = "SELL"
     /\ flight.logged > 0)
        => flight.validated.amount = Held(flight.validated)

\* The state of the drawdown guard of the agent
GuardState == agent.drawdownProtector.state

\* C37: getStatus is a read-only query.  A call of getStatus leaves the state
\* of the drawdown guard (peak, current and daily-start equity, inCooldown,
\* cooldownEnd, triggeredCount) as it was.
C37_GetStatusReadOnly == [][TK_getStatus => GuardState' = GuardState]_vars

\* What holds: a second getStatus right after a first one changes nothing.
C37_GetStatusIdempotent ==
    \A r1 \in {BaseAgent_getStatus(agent, clock, clock)} :
        BaseAgent_getStatus(r1.a, clock, clock).a = r1.a

\* C38: the local block is sticky.  Once canInteract has found a CRITICAL
\* flag for an address, or blockAddress was called for it, every later
\* canInteract for that address in any letter case returns allowed = false
\* with the reason 'Locally blocked' and makes no request to the reputation
\* service, until unblockAddress is called for it; a call for an address that
\* is not blocked in this way is evaluated by lookup, and blocks the address
\* when it finds a CRITICAL flag.
C38_LocalBlockSticky ==
    /\ guard.blockedAddresses = guardCall.blockedFor
    /\ lastOp = "canInteract" =>
          IF guardCall.wasBlocked
          THEN /\ ~guardCall.allowed
               /\ guardCall.reason = "Locally blocked"
               /\ guardCall.lookups = <<>>
          ELSE /\ guardCall.reason # "Locally blocked"
               /\ guardCall.reason = "Critical flags" =>
                      toLowerCase(guardCall.address) \in guard.blockedAddresses

\* An address whose CRITICAL flag was found under one spelling is asked
\* about under the other and answered by the local block.
C38_Witness ==
    /\ lastOp = "canInteract"
    /\ guardCall.address = "0xA"
    /\ guardCall.wasBlocked
    /\ guardCall.reason = "Locally blocked"
    /\ guardCall.blockedFor = {"0xa"}
    /\ DOMAIN guard.client.cache = {"0xa"}

\* An address that is not blocked is evaluated by lookup, and the CRITICAL
\* flag the lookup finds blocks it.
C38_WitnessUnblocked ==
    /\ lastOp = "canInteract"
    /\ ~guardCall.wasBlocked
    /\ guardCall.reason = "Critical flags"
    /\ Len(guardCall.lookups) > 0

-----------------------------------------------------------------------------
(* Properties of retry (checked under SpecRetryFair)                        *)

\* How a retry call stands: fn was invoked at most maxRetries times and
\* never after an invocation that succeeded; a call that returned returns
\* the value of its one successful invocation; a call that threw made
\* maxRetries invocations that all failed and throws the error of the last;
\* the wait after the failure of attempt i (counted from 0) is delayMs * 2^i.
RetryAsPromised ==
    LET r == retryRun
        n == Len(r.outcomes)
    IN  /\ r.invoked <= r.maxRetries
        /\ n <= r.invoked
        /\ \A k \in 1..n : r.outcomes[k].ok => (k = n /\ r.pc = "returned")
        /\ r.pc = "returned" =>
              /\ n >= 1
              /\ r.outcomes[n].ok
              /\ r.result = r.outcomes[n].value
              /\ r.invoked = n
        /\ r.pc = "thrown" =>
              /\ r.invoked = r.maxRetries
              /\ n = r.maxRetries
              /\ \A k \in 1..n : ~r.outcomes[k].ok
              /\ n >= 1 => r.thrown = r.outcomes[n].value
        /\ \A k \in 1..Len(r.waits) : r.waits[k] = r.delayMs * 2^(k - 1)
        /\ Len(r.waits) = Cardinality({k \in 1..n : ~r.outcomes[k].ok})

C39_WitnessThrown ==
    /\ retryRun.pc = "thrown"
    /\ retryRun.maxRetries = 2
    /\ retryRun.outcomes = <<[ok |-> FALSE, value |-> "e1"], [ok |-> FALSE, value |-> "e2"]>>
    /\ retryRun.thrown = "e2"
    /\ retryRun.waits = <<100, 200>>

-----------------------------------------------------------------------------
(* Properties of the RateLimiter (checked under SpecLimiterFair)            *)

\* The numbers from 1 to n in order
UpTo(n) == [k \in 1..n |-> k]

\* At most one processQueue loop is under way; the functions started so far
\* are the first throttle calls in the order they were made, each once; the
\* others are in the queue, in order; processing is set exactly while a loop
\* is under way, and with no loop under way the queue is empty.
LimiterAsPromised ==
    /\ Cardinality(ActiveLoops(limiter)) <= 1
    /\ limiter.started = UpTo(Len(limiter.started))
    /\ limiter.started \o limiter.queue = UpTo(limiter.calls)
    /\ limiter.processing <=> ActiveLoops(limiter) # {}
    /\ ActiveLoops(limiter) = {} => limiter.queue = <<>>

\* C40: under any interleaving of concurrent throttle callers at most one
\* processQueue drain loop is active at a time, queued functions are started
\* in FIFO order of their throttle calls, each is started exactly once, and
\* every queued function is eventually started (none is left in the queue
\* once the drain loop has ended).
C40_ThrottleDrainsInOrder ==
    /\ []LimiterAsPromised
    /\ \A k \in 1..MaxCalls :
          (limiter.calls >= k) ~> (Len(limiter.started) >= k)

\* Two calls were made while the loop of the first was asleep, and all three
\* functions have been started and the loop has ended.
C40_Witness ==
    /\ limiter.calls = 3
    /\ limiter.started = <<1, 2, 3>>
    /\ limiter.loops[1].pc = "ended"
    /\ limiter.loops[2].pc = "returned"
    /\ limiter.loops[3].pc = "returned"
    /\ ~limiter.processing

\* A call made while a loop sleeps with a function waiting in the queue
C40_WitnessAsleep ==
    /\ limiter.calls = 3
    /\ Len(limiter.queue) = 2
    /\ \E k \in ActiveLoops(limiter) : limiter.loops[k].pc = "sleeping"

====
